---- MODULE Spec2Model ----
(***************************************************************************)
(* klogrs: fan-in of per-pod kubectl log streams into one bounded tokio    *)
(* mpsc channel (kubernetes/log.rs), the kubectl child and its reaper       *)
(* (kubernetes/client.rs) and the three receive loops of main.rs.           *)
(***************************************************************************)
EXTENDS Integers, Sequences, FiniteSets, TLC

(* ------------------------------ bounds -------------------------------- *)

\* items (lines and read errors) the kubectl streams of Spec yield together
MaxItems == 3
\* items the kubectl streams of LiveSpec yield together
LiveItems == 2
\* lines the bursting pod of SpecBurst yields beyond the channel capacity
BurstExtra == 1
\* largest --tail count
MaxTail == 1
\* longest --grep or --level expression of SpecFilter, in symbols
MaxExpr == 3
\* longest line the built filters are probed with, in symbols, and longest
\* list of spans the merge is probed with
MaxProbe == 2
\* longest line LogEntry::parse and the level filters are probed with, in
\* symbols
MaxLine == 3

(* ------------------------- program constants -------------------------- *)

\* mpsc::channel(100)
Capacity == 100

\* the pods that passed can_get_logs, in the order run() adds them (run()
\* fails before any of this on an empty list)
pods == <<"pod-a", "pod-b">>
NumPods == Len(pods)

\* args.deployment
deployment == "web"

\* enum PodStatus
PodStatus == {"Running", "Pending", "CrashLoopBackOff", "Terminated", "Unknown"}
Pods == {pods[i] : i \in 1..NumPods}

\* Option<T>: <<>> is None, <<x>> is Some(x)
None == <<>>
Some(x) == <<x>>

VARIABLES
    follow,       \* args.follow
    tail,         \* args.tail : Option<usize>
    grep,         \* args.grep : Option<String>
    level,        \* args.level : Option<String>
    filters,      \* the root filter list built by run()
    error,        \* Option of the error run() returned from filter creation
    args_and,     \* args.and, the --and flag
    no_highlight, \* args.no_highlight, the --no-highlight flag
    status,       \* the PodStatus of every pod get_pods_for_deployment returned
    formatter,    \* the LogFormatter: its highlight flag, its grep_filters, its
                  \* pod_colors and the current_index of its color_generator
    script,       \* the first lines every kubectl prints; numbered lines follow
    pc,           \* position of run(): "args", "no_pods", "config_error", and of run_*:
                  \* "setup", "recv", "done", "failed"
    added,        \* pods for which add_pod_stream has returned
    rx_open,      \* the mpsc::Receiver is alive (not dropped)
    agg_tx,       \* LogAggregator.tx, the aggregator's own Sender, is alive
    queue,        \* contents of the channel buffer
    task,         \* per pod: position of the task spawned by add_pod_stream
    pending,      \* per pod: Option of the value its tx.send(..) is sending
    child,        \* per pod: the kubectl child process and its reaper task
    budget,       \* per pod: items its stream may still yield, and how many
                  \* of the next ones may be read errors
    yielded,      \* per pod: items log_stream.next() has returned (history)
    forwarded,    \* per pod: the values its task built from them (history)
    received,     \* per pod: values log_stream.recv() has returned (history)
    stalled,      \* pods whose latest send found the queue full when it began
    printed,      \* entries written by formatter.format_colored, in order
    pod_buffers   \* run_with_tail_no_follow: per pod buffer of entries

vars == <<follow, tail, grep, level, args_and, no_highlight, status, formatter,
         filters, error, script, pc, added, rx_open, agg_tx, queue, task,
          pending, child, budget, yielded,
                   forwarded, received, stalled, printed,
          pod_buffers>>

cfgVars == <<follow, tail, grep, level, args_and, no_highlight, status,
            filters, error, script>>
rendVars == <<printed, pod_buffers, formatter>>

(* ------------------------------ values -------------------------------- *)

\* A string is the sequence of its symbols: a symbol is one character, or a
\* word (a level name, a number) none of whose characters is a delimiter,
\* whitespace or a regex meta character.

\* the text of the k-th line of a kubectl stream: the lines of the script,
\* then numbered lines ("a 1", "b 2", "a 3", ..), so that every item of a
\* stream is distinguishable
LineText(k) ==
    IF k <= Len(script) THEN script[k]
    ELSE IF k % 2 = 1
         THEN <<"a", " ", ToString(k)>>
         ELSE <<"b", " ", ToString(k)>>

\* Result<Vec<u8>> yielded by the kubectl stream
StreamLine(k) == [ok |-> TRUE, bytes |-> LineText(k)]
StreamErr(k) == [ok |-> FALSE, bytes |-> <<"io", " ", ToString(k)>>]

\* the characters '\r' and '\0'
CR == "\r"
NUL == "\\0"

\* str::replace(c, ""): the string without the character c
Replace(s, c) == SelectSeq(s, LAMBDA x : x # c)

\* str::find(c): the Option of the first position of c
Find(s, c) ==
    IF \E i \in 1..Len(s) : s[i] = c
    THEN Some(CHOOSE i \in 1..Len(s) : s[i] = c /\ \A j \in 1..(i - 1) : s[j] # c)
    ELSE None

\* mutant: the message is what follows the last space
LogEntryLastSpace(p, line) ==
    LET clean_line == Replace(Replace(line, CR), NUL)
        spaces == {i \in 1..Len(clean_line) : clean_line[i] = " "}
    IN [ok |-> TRUE, pod_name |-> p, raw_line |-> clean_line,
        message |-> IF spaces # {}
                    THEN SubSeq(clean_line,
                                (CHOOSE i \in spaces : \A j \in spaces : j <= i) + 1,
                                Len(clean_line))
                    ELSE clean_line]

\* mutant: the message is taken from the line as it was read
LogEntryUncleanMessage(p, line) ==
    LET clean_line == Replace(Replace(line, CR), NUL)
        timestamp_end == Find(line, " ")
    IN [ok |-> TRUE, pod_name |-> p, raw_line |-> clean_line,
        message |-> IF timestamp_end # None
                    THEN SubSeq(line, timestamp_end[1] + 1, Len(line))
                    ELSE line]

\* LogEntry::parse(pod_name, raw_line)
LogEntry(p, line) ==
    LET clean_line == Replace(Replace(line, CR), NUL)
        timestamp_end == Find(clean_line, " ")
    IN [ok |-> TRUE, pod_name |-> p, raw_line |-> clean_line,
        message |-> IF timestamp_end # None
                    THEN SubSeq(clean_line, timestamp_end[1] + 1, Len(clean_line))
                    ELSE clean_line]

\* anyhow!("Error from pod {}: {}", pod_name, e)
PodError(p, e) == [ok |-> FALSE, pod_name |-> p, raw_line |-> e, message |-> e]

\* the value the ingestor of pod p sends for a stream item
Forward(p, item) ==
    IF item.ok THEN LogEntry(p, item.bytes) ELSE PodError(p, item.bytes)

(* ------------------------------ strings ------------------------------ *)

\* Result<T>: Ok(v) and Err(e)
Ok(v) == [ok |-> TRUE, val |-> v]
Err(e) == [ok |-> FALSE, val |-> e]

\* str::contains(char)
Contains(s, c) == \E i \in 1..Len(s) : s[i] = c

RECURSIVE SplitOn(_, _)
\* str::split(char): the fragments between the delimiters, the empty ones
\* included
SplitOn(s, d) ==
    IF ~ Contains(s, d)
    THEN <<s>>
    ELSE LET i == CHOOSE i \in 1..Len(s) :
                      s[i] = d /\ \A j \in 1..(i - 1) : s[j] # d
         IN <<SubSeq(s, 1, i - 1)>> \o SplitOn(SubSeq(s, i + 1, Len(s)), d)

\* char::is_whitespace
IsWhitespace(c) == c = " "

RECURSIVE TrimStart(_)
TrimStart(s) ==
    IF s # <<>> /\ IsWhitespace(Head(s)) THEN TrimStart(Tail(s)) ELSE s

RECURSIVE TrimEnd(_)
TrimEnd(s) ==
    IF s # <<>> /\ IsWhitespace(s[Len(s)])
    THEN TrimEnd(SubSeq(s, 1, Len(s) - 1))
    ELSE s

\* mutant: fragments are used as they stand between the delimiters
TrimNothing(s) == s

\* str::trim
Trim(s) == TrimEnd(TrimStart(s))

\* str::contains(&str)
ContainsStr(text, pat) ==
    \E i \in 0..(Len(text) - Len(pat)) : SubSeq(text, i + 1, i + Len(pat)) = pat

\* the characters that are not word characters (\w) of the regex crate
NonWord == {" ", ",", "&", "(", "[", "]", ":"}

\* str::to_uppercase, symbol by symbol
ToUpper(c) ==
    CASE c = "trace" -> "TRACE"
      [] c = "Trace" -> "TRACE"
      [] c = "debug" -> "DEBUG"
      [] c = "info" -> "INFO"
      [] c = "Info" -> "INFO"
      [] c = "warn" -> "WARN"
      [] c = "warning" -> "WARNING"
      [] c = "error" -> "ERROR"
      [] c = "err" -> "ERR"
      [] c = "fatal" -> "FATAL"
      [] c = "critical" -> "CRITICAL"
      [] c = "bogus" -> "BOGUS"
      [] c = "a" -> "A"
      [] c = "b" -> "B"
      [] OTHER -> c

(* ------------------------------ filters ------------------------------- *)

\* regex::escape: every meta character gets a backslash
Escape(pattern) ==
    [i \in 1..Len(pattern) |-> IF pattern[i] = "(" THEN "\\(" ELSE pattern[i]]

\* Regex::new: a group that is opened and not closed is a syntax error; the
\* compiled regex is the sequence of literals it matches
RegexNew(pattern) ==
    IF Contains(pattern, "(")
    THEN Err("regex parse error: unclosed group")
    ELSE Ok([i \in 1..Len(pattern) |->
                IF pattern[i] = "\\(" THEN "(" ELSE pattern[i]])

\* Regex::is_match of a regex of literals: an unanchored search
IsMatch(regex, text) == ContainsStr(text, regex)

\* mutant: a pattern that is not a regex is refused
GrepFilterNewStrict(pattern) ==
    LET re == RegexNew(pattern)
    IN IF re.ok
       THEN Ok([kind |-> "grep", pattern |-> pattern, regex |-> re.val,
                filters |-> <<>>])
       ELSE re

\* GrepFilter::new
GrepFilterNew(pattern) ==
    LET re == RegexNew(pattern)
        escaped == RegexNew(Escape(pattern))
    IN IF re.ok
       THEN Ok([kind |-> "grep", pattern |-> pattern, regex |-> re.val,
                filters |-> <<>>])
       ELSE IF escaped.ok
            THEN Ok([kind |-> "grep", pattern |-> pattern,
                     regex |-> escaped.val, filters |-> <<>>])
            ELSE escaped

valid_levels ==
    {"TRACE", "DEBUG", "INFO", "WARN", "WARNING", "ERROR", "ERR", "FATAL",
     "CRITICAL"}

\* mutant: the level is compared with valid_levels as it was typed
LevelFilterNewCaseSensitive(level_str) ==
    IF ~ (Len(level_str) = 1 /\ level_str[1] \in valid_levels)
    THEN Err(<<"Invalid log level: ">> \o level_str)
    ELSE Ok([kind |-> "level", pattern |-> level_str,
             regex |-> IF level_str[1] \in {"WARN", "WARNING"}
                       THEN <<"WARN", "WARNING">>
                       ELSE level_str,
             filters |-> <<>>])

\* mutant: WARN and WARNING get the generic pattern of the other levels
LevelFilterNewOwnSpelling(level_str) ==
    LET upper_level == [i \in 1..Len(level_str) |-> ToUpper(level_str[i])]
    IN IF ~ (Len(upper_level) = 1 /\ upper_level[1] \in valid_levels)
       THEN Err(<<"Invalid log level: ">> \o level_str)
       ELSE Ok([kind |-> "level", pattern |-> upper_level,
                regex |-> upper_level, filters |-> <<>>])

\* LevelFilter::new: the level is valid when its upper-cased text is one of
\* valid_levels; the regex is kept as the level names it looks for
LevelFilterNew(level_str) ==
    LET upper_level == [i \in 1..Len(level_str) |-> ToUpper(level_str[i])]
    IN IF ~ (Len(upper_level) = 1 /\ upper_level[1] \in valid_levels)
       THEN Err(<<"Invalid log level: ">> \o level_str)
       ELSE Ok([kind |-> "level", pattern |-> upper_level,
                regex |-> IF upper_level[1] \in {"WARN", "WARNING"}
                          THEN <<"WARN", "WARNING">>
                          ELSE upper_level,
                filters |-> <<>>])

\* \b before position i and after position i of text
BoundaryBefore(text, i) == i = 1 \/ text[i - 1] \in NonWord
BoundaryAfter(text, i) == i = Len(text) \/ text[i + 1] \in NonWord

\* a \d{4}[-/]\d{2}[-/]\d{2} date
IsDate(c) == c \in {"2024-01-01"}

\* mutant: the level regex without its word boundaries
LevelIsMatchInsideWords(regex, text) ==
    \E i \in 1..Len(text) : \E k \in 1..Len(regex) : ToUpper(text[i]) = regex[k]

\* Regex::is_match of the level regex (?i)(\[L\])|(\bL:)|(date.*?\bL:)|(\bL\b)
LevelIsMatch(regex, text) ==
    \E i \in 1..Len(text) :
        /\ \E k \in 1..Len(regex) : ToUpper(text[i]) = regex[k]
        /\ \/ /\ i > 1 /\ text[i - 1] = "["
              /\ i < Len(text) /\ text[i + 1] = "]"
           \/ /\ BoundaryBefore(text, i)
              /\ i < Len(text) /\ text[i + 1] = ":"
           \/ /\ \E d \in 1..(i - 1) : IsDate(text[d])
              /\ BoundaryBefore(text, i)
              /\ i < Len(text) /\ text[i + 1] = ":"
           \/ /\ BoundaryBefore(text, i)
              /\ BoundaryAfter(text, i)

\* mutant: the exclusion rule of every level
ShouldExcludeAnyLevel(f, text) ==
    /\ ContainsStr(text, <<"Trace", "[">>)
    /\ ContainsStr(text, <<"error", ":">>)

\* LevelFilter::should_exclude
ShouldExclude(f, text) ==
    /\ f.pattern = <<"ERROR">>
    /\ ContainsStr(text, <<"Trace", "[">>)
    /\ ContainsStr(text, <<"error", ":">>)

\* AndFilter::new, OrFilter::new
AndFilter(fs) == [kind |-> "and", pattern |-> <<>>, regex |-> <<>>, filters |-> fs]
OrFilter(fs) == [kind |-> "or", pattern |-> <<>>, regex |-> <<>>, filters |-> fs]

RECURSIVE Apply(_, _)
RECURSIVE IterAll(_, _)
RECURSIVE IterAny(_, _)

\* mutant: an AndFilter without children matches nothing
IterAllNonEmpty(fs, entry) ==
    fs # <<>> /\ \A i \in 1..Len(fs) : Apply(fs[i], entry)

\* self.filters.iter().all(|f| f.apply(entry)): stops at the first child that
\* does not match
IterAll(fs, entry) ==
    IF fs = <<>> THEN TRUE
    ELSE IF ~ Apply(Head(fs), entry) THEN FALSE
    ELSE IterAll(Tail(fs), entry)

\* self.filters.iter().any(|f| f.apply(entry)): stops at the first child that
\* matches
IterAny(fs, entry) ==
    IF fs = <<>> THEN FALSE
    ELSE IF Apply(Head(fs), entry) THEN TRUE
    ELSE IterAny(Tail(fs), entry)

\* mutant: the matchers are given the message, the line without its timestamp
ApplyMessage(f, entry) ==
    CASE f.kind = "grep" -> IsMatch(f.regex, entry.message)
      [] f.kind = "level" ->
            IF ShouldExclude(f, entry.message)
            THEN FALSE
            ELSE LevelIsMatch(f.regex, entry.message)
      [] f.kind = "and" -> IterAll(f.filters, entry)
      [] f.kind = "or" -> IterAny(f.filters, entry)

\* Filter::apply of GrepFilter, LevelFilter, AndFilter and OrFilter
Apply(f, entry) ==
    CASE f.kind = "grep" -> IsMatch(f.regex, entry.raw_line)
      [] f.kind = "level" ->
            IF ShouldExclude(f, entry.raw_line)
            THEN FALSE
            ELSE LevelIsMatch(f.regex, entry.raw_line)
      [] f.kind = "and" -> IterAll(f.filters, entry)
      [] f.kind = "or" -> IterAny(f.filters, entry)

\* anyhow!("Invalid grep pattern: {}", trimmed_pattern)
InvalidGrepPattern(trimmed_pattern) == <<"Invalid grep pattern: ">> \o trimmed_pattern

\* mutant: the error names the level as it was validated, in upper case
InvalidLogLevelUpper(trimmed_level) ==
    <<"Invalid log level: ">> \o [i \in 1..Len(trimmed_level) |-> ToUpper(trimmed_level[i])]

\* anyhow!("Invalid log level: {}", trimmed_level)
InvalidLogLevel(trimmed_level) == <<"Invalid log level: ">> \o trimmed_level

\* mutant: patterns are always alternatives
IsAndOperationNever(expr) == FALSE

\* let is_and_operation = grep.contains('&')
IsAndOperation(expr) == Contains(expr, "&")

RECURSIVE GrepFilters(_, _)
\* for pattern in patterns { .. }: grep_filters, or the error returned
GrepFilters(patterns, grep_filters) ==
    IF patterns = <<>>
    THEN Ok(grep_filters)
    ELSE LET trimmed_pattern == Trim(Head(patterns))
             made == GrepFilterNew(trimmed_pattern)
         IN IF trimmed_pattern = <<>>
            THEN GrepFilters(Tail(patterns), grep_filters)
            ELSE IF made.ok
                 THEN GrepFilters(Tail(patterns), Append(grep_filters, made.val))
                 ELSE Err(InvalidGrepPattern(trimmed_pattern))

RECURSIVE LevelFiltersLenient(_, _)
\* mutant: a level that is not valid is left out and the others are used
LevelFiltersLenient(level_values, level_filters) ==
    IF level_values = <<>>
    THEN Ok(level_filters)
    ELSE LET trimmed_level == Trim(Head(level_values))
             made == LevelFilterNew(trimmed_level)
         IN IF trimmed_level = <<>> \/ ~ made.ok
            THEN LevelFiltersLenient(Tail(level_values), level_filters)
            ELSE LevelFiltersLenient(Tail(level_values),
                                     Append(level_filters, made.val))

RECURSIVE LevelFilters(_, _)
\* for level_value in level_values { .. }: level_filters, or the error returned
LevelFilters(level_values, level_filters) ==
    IF level_values = <<>>
    THEN Ok(level_filters)
    ELSE LET trimmed_level == Trim(Head(level_values))
             made == LevelFilterNew(trimmed_level)
         IN IF trimmed_level = <<>>
            THEN LevelFilters(Tail(level_values), level_filters)
            ELSE IF made.ok
                 THEN LevelFilters(Tail(level_values), Append(level_filters, made.val))
                 ELSE Err(InvalidLogLevel(trimmed_level))

\* if let Some(grep) = &args.grep { .. }: what it pushes on combined_filters
GrepCombined(args_grep) ==
    IF args_grep = None
    THEN Ok(<<>>)
    ELSE LET is_and_operation == IsAndOperation(args_grep[1])
             patterns == IF is_and_operation
                         THEN SplitOn(args_grep[1], "&")
                         ELSE SplitOn(args_grep[1], ",")
             made == GrepFilters(patterns, <<>>)
         IN IF ~ made.ok THEN made
            ELSE IF made.val = <<>> THEN Ok(<<>>)
            ELSE IF is_and_operation
                 THEN Ok(<<AndFilter(made.val)>>)
                 ELSE Ok(<<OrFilter(made.val)>>)

\* if let Some(level) = args.level.as_ref() { .. }: what it pushes on
\* combined_filters
LevelCombined(args_level) ==
    IF args_level = None
    THEN Ok(<<>>)
    ELSE LET made == LevelFilters(SplitOn(args_level[1], ","), <<>>)
         IN IF ~ made.ok THEN made
            ELSE IF made.val = <<>> THEN Ok(<<>>)
            ELSE Ok(<<OrFilter(made.val)>>)

\* mutant: the GrepFilters are given to the formatter whatever the flag is
FormatterRegistersAlways(args_grep, args_no_highlight) ==
    [highlight |-> ~ args_no_highlight,
     grep_filters |->
        IF args_grep = None
        THEN <<>>
        ELSE LET patterns == IF IsAndOperation(args_grep[1])
                             THEN SplitOn(args_grep[1], "&")
                             ELSE SplitOn(args_grep[1], ",")
                 made == GrepFilters(patterns, <<>>)
             IN IF made.ok THEN made.val ELSE <<>>,
     pod_colors |-> [p \in Pods |-> None],
     current_index |-> 0]

\* formatter.set_highlight(!args.no_highlight), and formatter.add_grep_filter
\* for every GrepFilter the loop over the patterns creates
Formatter(args_grep, args_no_highlight) ==
    [highlight |-> ~ args_no_highlight,
     grep_filters |->
        IF args_grep = None \/ args_no_highlight
        THEN <<>>
        ELSE LET patterns == IF IsAndOperation(args_grep[1])
                             THEN SplitOn(args_grep[1], "&")
                             ELSE SplitOn(args_grep[1], ",")
                 made == GrepFilters(patterns, <<>>)
             IN IF made.ok THEN made.val ELSE <<>>,
     pod_colors |-> [p \in Pods |-> None],
     current_index |-> 0]

\* the filter creation of run(): the root filter list, or the error returned
CreateFilters(args_grep, args_level) ==
    LET from_grep == GrepCombined(args_grep)
        from_level == LevelCombined(args_level)
    IN IF ~ from_grep.ok THEN from_grep
       ELSE IF ~ from_level.ok THEN from_level
       ELSE LET combined_filters == from_grep.val \o from_level.val
            IN IF Len(combined_filters) > 1
               THEN Ok(<<AndFilter(combined_filters)>>)
               ELSE Ok(combined_filters)

\* mutant: the loops print whatever they receive
PassesEverything(entry) == TRUE

\* !filters.is_empty() && !filters.iter().all(|f| f.apply(&entry)) => skip
Passes(entry) ==
    ~ (Len(filters) > 0 /\ ~ (\A i \in 1..Len(filters) : Apply(filters[i], entry)))

\* mutant: a tail count alone selects run_with_tail_no_follow
ModeTailAlone == IF tail # None THEN "tail_no_follow" ELSE "standard"

\* which run_* function run() dispatches to
Mode ==
    IF tail # None
    THEN IF follow THEN "tail_follow" ELSE "tail_no_follow"
    ELSE "standard"

\* the subsequence of s of the items of pod p
SelectSeq2(s, p) == SelectSeq(s, LAMBDA v : v.pod_name = p)

(* ------------------------------ channel ------------------------------- *)

TaskAlive(p) == task[p] \in {"next", "send", "sleep"}

\* mutant: the clones held by the ingestor tasks are not counted
SendersAggregatorOnly == IF agg_tx THEN 1 ELSE 0

\* number of live Sender handles: the aggregator's and one clone per task
Senders ==
    (IF agg_tx THEN 1 ELSE 0) + Cardinality({p \in Pods : TaskAlive(p)})

\* recv() returns None: no value buffered and every Sender dropped
ChannelClosed == queue = <<>> /\ Senders = 0

\* mutant: an unbounded channel, a send never waits
SendReadyUnbounded == TRUE

\* send(..).await completes: a permit is available, or the receiver is gone
SendReady == ~ rx_open \/ Len(queue) < Capacity

(* ------------------------------- Init --------------------------------- *)

TailChoices == {None} \cup {Some(n) : n \in 1..MaxTail}

RECURSIVE Strings(_, _)
\* the strings of at most n symbols of an alphabet
Strings(alphabet, n) ==
    IF n = 0 THEN {<<>>}
    ELSE LET shorter == Strings(alphabet, n - 1)
         IN shorter \cup {Append(s, c) : s \in shorter, c \in alphabet}

\* the --grep expressions of SpecFilter
GrepExprs == {None} \cup {Some(s) : s \in Strings({"a", "b", ",", "&", " ", "("}, MaxExpr)}

\* the --level expressions of SpecFilter
LevelExprs == {None} \cup {Some(s) : s \in Strings({"info", "ERROR", "bogus", ",", " "}, MaxExpr)}

(* ----------------------------- highlighting --------------------------- *)

RECURSIVE FindIter(_, _, _)
\* Regex::find_iter from the offset on: the leftmost match, then the matches
\* behind its end (one further on when the match is empty)
FindIter(regex, text, from) ==
    LET n == Len(regex)
        found == {i \in from..(Len(text) - n) : SubSeq(text, i + 1, i + n) = regex}
    IN IF found = {}
       THEN <<>>
       ELSE LET i == CHOOSE i \in found : \A j \in found : i <= j
            IN <<<<i, i + n>>>> \o FindIter(regex, text, IF n = 0 THEN i + 1 ELSE i + n)

\* GrepFilter::find_matches: the (start, end) offsets of the matches
FindMatches(f, text) == FindIter(f.regex, text, 0)

RECURSIVE CollectMatches(_, _)
\* for filter in &self.grep_filters { matches.extend(..) }
CollectMatches(fs, message) ==
    IF fs = <<>> THEN <<>>
    ELSE FindMatches(Head(fs), message) \o CollectMatches(Tail(fs), message)

RECURSIVE SortByStart(_)
\* matches.sort_by_key(|&(start, _)| start): a stable sort
SortByStart(matches) ==
    IF matches = <<>> THEN <<>>
    ELSE LET n == Len(matches)
             front == SortByStart(SubSeq(matches, 1, n - 1))
             last == matches[n]
             k == Cardinality({i \in 1..(n - 1) : front[i][1] <= last[1]})
         IN SubSeq(front, 1, k) \o <<last>> \o SubSeq(front, k + 1, n - 1)

\* mutant: a match that begins where the previous one ends is kept apart
OverlapsStrictly(start, last_end) == start < last_end

\* if start <= *last_end: the match overlaps or touches the previous one
Overlaps(start, last_end) == start <= last_end

\* mutant: the end of the later match replaces the end of the merged one
MaxTakesEnd(a, b) == b

\* std::cmp::max
Max(a, b) == IF a >= b THEN a ELSE b

RECURSIVE MergeInto(_, _)
\* for (start, end) in matches { .. }: merged_matches after the loop
MergeInto(merged_matches, matches) ==
    IF matches = <<>> THEN merged_matches
    ELSE LET start == Head(matches)[1]
             end == Head(matches)[2]
             n == Len(merged_matches)
         IN IF n > 0 /\ Overlaps(start, merged_matches[n][2])
            THEN MergeInto([merged_matches EXCEPT ![n][2] = Max(@, end)],
                           Tail(matches))
            ELSE MergeInto(Append(merged_matches, <<start, end>>), Tail(matches))

\* the sort and the merge of write_highlighted_message
SortAndMerge(matches) == MergeInto(<<>>, SortByStart(matches))

\* merged_matches of write_highlighted_message for a message
MergedMatches(message) ==
    SortAndMerge(CollectMatches(formatter.grep_filters, message))

\* what one write!(stdout, ..) puts out: a text, in the highlight colour
\* (intense yellow) or in the terminal's own
Segment(highlighted, text) == [highlighted |-> highlighted, text |-> text]

\* the line feed writeln! ends the line with
NL == "\n"

\* &message[from..to]
Slice(message, from, to) == SubSeq(message, from + 1, to)

\* mutant: the text behind the last match is not written
RemainingDropped(message, last_end) == <<>>

\* if last_end < message.len() { write!(stdout, "{}", &message[last_end..]) }
Remaining(message, last_end) ==
    IF last_end < Len(message)
    THEN <<Segment(FALSE, Slice(message, last_end, Len(message)))>>
    ELSE <<>>

RECURSIVE WriteMatches(_, _, _)
\* for (start, end) in merged_matches { .. } from last_end on, then the
\* remaining text and writeln!(stdout): the segments written, in order
WriteMatches(merged_matches, message, last_end) ==
    IF merged_matches = <<>>
    THEN Remaining(message, last_end) \o <<Segment(FALSE, <<NL>>)>>
    ELSE LET start == Head(merged_matches)[1]
             end == Head(merged_matches)[2]
         IN (IF start > last_end
             THEN <<Segment(FALSE, Slice(message, last_end, start))>>
             ELSE <<>>)
            \o <<Segment(TRUE, Slice(message, start, end))>>
            \o WriteMatches(Tail(merged_matches), message, end)

\* LogFormatter::write_highlighted_message
WriteHighlightedMessage(grep_filters, message) ==
    WriteMatches(SortAndMerge(CollectMatches(grep_filters, message)), message, 0)

\* the message part of format_colored: highlighted when highlighting is on
\* and there are grep filters, and else writeln!(stdout, "{}", entry.message)
WriteMessage(fmt, message) ==
    IF fmt.highlight /\ fmt.grep_filters # <<>>
    THEN WriteHighlightedMessage(fmt.grep_filters, message)
    ELSE <<Segment(FALSE, message \o <<NL>>)>>

\* ColorGenerator::new: the colours in the order they are handed out
colors == <<"Red", "Green", "Blue", "Cyan", "Magenta", "Yellow", "White">>

\* LogFormatter::new: no pod has a colour (pod_colors is an empty HashMap,
\* a pod without an entry maps to None) and the generator is at its start
LogFormatterNew ==
    [highlight |-> TRUE, grep_filters |-> <<>>,
     pod_colors |-> [p \in Pods |-> None], current_index |-> 0]

\* mutant: every line takes the next colour of the generator
PodColorAlwaysNext(fmt, pod_name) ==
    [color |-> colors[fmt.current_index + 1],
     formatter |-> [fmt EXCEPT !.pod_colors[pod_name] = Some(colors[fmt.current_index + 1]),
                               !.current_index = (@ + 1) % Len(colors)]]

\* self.pod_colors.entry(pod_name).or_insert_with(|| self.color_generator
\* .next_color()): the colour of the pod and the formatter afterwards
PodColor(fmt, pod_name) ==
    IF fmt.pod_colors[pod_name] # None
    THEN [color |-> fmt.pod_colors[pod_name][1], formatter |-> fmt]
    ELSE [color |-> colors[fmt.current_index + 1],
          formatter |-> [fmt EXCEPT !.pod_colors[pod_name] = Some(colors[fmt.current_index + 1]),
                                    !.current_index = (@ + 1) % Len(colors)]]

\* LogFormatter::format_colored: the prefix "[pod_name]" in the colour of the
\* pod, a space and the message; and the formatter afterwards
FormatColored(fmt, entry) ==
    LET got == PodColor(fmt, entry.pod_name)
    IN [formatter |-> got.formatter,
        color |-> got.color,
        prefix |-> <<"[", entry.pod_name, "]">>,
        segments |-> <<Segment(FALSE, <<" ">>)>> \o WriteMessage(fmt, entry.message)]

RECURSIVE RenderAll(_, _)
\* format_colored for the entries one after the other: the colours of their
\* prefixes and the formatter afterwards
RenderAll(fmt, entries) ==
    IF entries = <<>> THEN [formatter |-> fmt, colors |-> <<>>]
    ELSE LET first == FormatColored(fmt, Head(entries))
             rest == RenderAll(first.formatter, Tail(entries))
         IN [formatter |-> rest.formatter, colors |-> <<first.color>> \o rest.colors]

InitCommon ==
    /\ follow \in BOOLEAN
    /\ tail \in TailChoices
    /\ filters = <<>>
    /\ formatter = LogFormatterNew
    /\ error = None
    /\ pc = "args"
    /\ added = 0
    /\ rx_open = FALSE
    /\ agg_tx = FALSE
    /\ queue = <<>>
    /\ task = [p \in Pods |-> "idle"]
    /\ pending = [p \in Pods |-> None]
    /\ child = [p \in Pods |-> "none"]
    /\ yielded = [p \in Pods |-> <<>>]
    /\ forwarded = [p \in Pods |-> <<>>]
    /\ received = [p \in Pods |-> <<>>]
    /\ stalled = {}
    /\ printed = <<>>
    /\ pod_buffers = [p \in Pods |-> <<>>]

\* the streams yield total items together, split in any way between the
\* first pod and the others, any of them read errors
Split(total) ==
    {[p \in Pods |->
         [items |-> IF p = pods[1] THEN n ELSE total - n, errs |-> total]] :
        n \in 0..total}

Init ==
    /\ InitCommon
    /\ grep \in {None, Some(<<"a">>)}
    /\ level = None
    /\ script = <<>>
    /\ no_highlight = FALSE
    /\ status = [p \in Pods |-> "Running"]
    /\ args_and = FALSE
    /\ budget \in Split(MaxItems)

\* the first pod logs one item, which may be a read error
OneItem ==
    [p \in Pods |->
        IF p = pods[1]
        THEN [items |-> 1, errs |-> 1]
        ELSE [items |-> 0, errs |-> 0]]

\* the runs that exercise filter creation: any expression for one option
\* with a few for the other, and one pod that logs one item, the line
\* "INFO a 1" or a read error
InitFilter ==
    /\ InitCommon
    /\ ~ follow
    /\ tail = None
    /\ \/ /\ grep \in GrepExprs
          /\ level \in {None, Some(<<"bogus">>)}
          /\ args_and = FALSE
       \/ /\ grep \in {None, Some(<<"a", "&", "b">>)}
          /\ level \in LevelExprs
          /\ args_and = FALSE
       \/ /\ grep \in {Some(<<"a", ",", "b">>), Some(<<"a", "&", "b">>)}
          /\ level \in {None, Some(<<"info", ",", "ERROR">>)}
          /\ args_and = TRUE
    /\ script = <<<<"INFO", " ", "a", " ", "1">>>>
    /\ no_highlight = FALSE
    /\ status = [p \in Pods |-> "Running"]
    /\ budget = OneItem

\* the --level names of SpecLevel: the valid ones in upper and in lower
\* case, one in mixed case, and one that is none
LevelArgs ==
    valid_levels
        \cup {"trace", "debug", "info", "warn", "warning", "error", "err",
              "fatal", "critical", "bogus", "Trace"}

\* the lines kubectl prints in SpecLevel
LevelScripts ==
    {<<"[", "ERROR", "]", " ", "a">>,
     <<"[", "WARN", "]", " ", "a">>,
     <<"error", "a">>,
     <<"Trace", "[", "1", "]", ":", " ", "error", ":", "a", " ", "[", "ERROR", "]">>}

\* the runs that exercise the level filters: one level name and one pod
\* that logs one line
InitLevel ==
    /\ InitCommon
    /\ ~ follow
    /\ tail = None
    /\ grep = None
    /\ level \in {Some(<<name>>) : name \in LevelArgs}
    /\ script \in {<<line>> : line \in LevelScripts}
    /\ no_highlight = FALSE
    /\ status = [p \in Pods |-> "Running"]
    /\ args_and = FALSE
    /\ budget = OneItem

\* the --grep expressions of SpecSpans
SpanGreps ==
    {Some(<<"a", ",", "b">>), Some(<<"b", ",", "a">>),
     Some(<<"a", "b", ",", "b">>)}

\* the lines kubectl prints in SpecSpans: a timestamp and a message
SpanScripts == {<<"t", " ">> \o message : message \in Strings({"a", "b"}, MaxLine)}

\* the runs that exercise the highlighting: patterns whose matches overlap,
\* and one pod that logs one line
InitSpans ==
    /\ InitCommon
    /\ ~ follow
    /\ tail = None
    /\ grep \in SpanGreps
    /\ level = None
    /\ args_and = FALSE
    /\ script \in {<<line>> : line \in SpanScripts}
    /\ no_highlight \in BOOLEAN
    /\ status = [p \in Pods |-> "Running"]
    /\ budget = OneItem

\* the runs that exercise the discovery: pods of any status, each with
\* one item to log, which may be a read error
InitPods ==
    /\ InitCommon
    /\ grep = None
    /\ level = None
    /\ args_and = FALSE
    /\ script = <<>>
    /\ no_highlight = FALSE
    /\ status \in [Pods -> PodStatus]
    /\ budget = [p \in Pods |-> [items |-> 1, errs |-> 1]]

\* the lines of SpecParse
ParseLines == Strings({"a", " ", CR, NUL}, MaxLine)

\* the runs that exercise LogEntry::parse: one pod logs one line
InitParse ==
    /\ InitCommon
    /\ ~ follow
    /\ tail = None
    /\ grep = None
    /\ level = None
    /\ script \in {<<line>> : line \in ParseLines}
    /\ no_highlight = FALSE
    /\ status = [p \in Pods |-> "Running"]
    /\ args_and = FALSE
    /\ budget = OneItem

\* the runs whose progress is checked: no filter, fewer items, and the
\* smallest tail count
InitLive ==
    /\ InitCommon
    /\ tail \in {None, Some(1)}
    /\ grep = None
    /\ level = None
    /\ script = <<>>
    /\ no_highlight = FALSE
    /\ status = [p \in Pods |-> "Running"]
    /\ args_and = FALSE
    /\ budget \in Split(LiveItems)

\* a burst: the first pod has more lines ready than the channel holds (only
\* its first read may fail), the others have nothing to say
InitBurst ==
    /\ InitCommon
    /\ ~ follow
    /\ tail = None
    /\ grep = None
    /\ level = None
    /\ script = <<>>
    /\ no_highlight = FALSE
    /\ status = [p \in Pods |-> "Running"]
    /\ args_and = FALSE
    /\ budget = [p \in Pods |->
                    IF p = pods[1]
                    THEN [items |-> Capacity + BurstExtra, errs |-> 1]
                    ELSE [items |-> 0, errs |-> 0]]

\* a burst of a deployment with one pod whose logs can be fetched: the first
\* pod has more lines ready than the channel holds (only its first read may
\* fail), the other is still pending
InitBurstLive ==
    /\ InitCommon
    /\ ~ follow
    /\ tail = None
    /\ grep = None
    /\ level = None
    /\ script = <<>>
    /\ no_highlight = FALSE
    /\ status = [p \in Pods |-> IF p = pods[1] THEN "Running" ELSE "Pending"]
    /\ args_and = FALSE
    /\ budget = [p \in Pods |->
                    IF p = pods[1]
                    THEN [items |-> Capacity + BurstExtra, errs |-> 1]
                    ELSE [items |-> 0, errs |-> 0]]

(* ------------------------------ driver -------------------------------- *)

\* mutant: the logs of a pending pod are fetched too
CanGetLogsPending(s) == s \in {"Running", "CrashLoopBackOff", "Pending"}

\* PodInfo::can_get_logs
CanGetLogs(s) ==
    CASE s = "Running" -> TRUE
      [] s = "CrashLoopBackOff" -> TRUE
      [] OTHER -> FALSE

\* pods.retain(|pod| pod.can_get_logs()): the pods run() goes on with
ActivePods == SelectSeq(pods, LAMBDA p : CanGetLogs(status[p]))

\* anyhow!("No active pods found for deployment {}", args.deployment)
NoActivePods == <<"No active pods found for deployment ", deployment>>

\* run() keeps the pods whose logs can be fetched and returns an error when
\* none is left; it creates the formatter and the filters from args.grep
\* and args.level: on an error it returns it; otherwise it dispatches to a
\* run_* function, which begins with LogAggregator::new()
Run ==
    /\ pc = "args"
    /\ LET made == CreateFilters(grep, level)
       IN IF ActivePods = <<>>
          THEN /\ error' = Some(NoActivePods)
               /\ pc' = "no_pods"
               /\ UNCHANGED <<filters, formatter, rx_open, agg_tx>>
          ELSE IF made.ok
          THEN /\ filters' = made.val
               /\ formatter' = Formatter(grep, no_highlight)
               /\ error' = None
               /\ pc' = "setup"
               /\ rx_open' = TRUE
               /\ agg_tx' = TRUE
          ELSE /\ filters' = filters
               /\ formatter' = formatter
               /\ error' = Some(made.val)
               /\ pc' = "config_error"
               /\ UNCHANGED <<rx_open, agg_tx>>
    /\ UNCHANGED <<follow, tail, grep, level, args_and, no_highlight, status, script,
                   added, queue, task,
                   pending, child, budget, yielded,
                   forwarded, received, stalled, printed, pod_buffers>>

\* mutant: one call spawns the ingestors of all the pods that are left
AddPodStartsAll ==
    /\ pc = "setup"
    /\ added < Len(ActivePods)
    /\ added' = added + 1
    /\ child' = [p \in Pods |->
                    IF \E i \in (added + 1)..Len(ActivePods) : ActivePods[i] = p
                    THEN "running" ELSE child[p]]
    /\ task' = [p \in Pods |->
                   IF \E i \in (added + 1)..Len(ActivePods) : ActivePods[i] = p
                   THEN "next" ELSE task[p]]
    /\ UNCHANGED <<cfgVars, pc, rx_open, agg_tx, queue, pending, budget,
                   yielded, forwarded, received, stalled, rendVars>>

\* client.get_pod_logs(pod, ..) succeeds and aggregator.add_pod_stream
\* spawns the ingestor; get_pod_logs has spawned kubectl and its reaper
AddPod ==
    /\ pc = "setup"
    /\ added < Len(ActivePods)
    /\ added' = added + 1
    /\ child' = [child EXCEPT ![ActivePods[added + 1]] = "running"]
    /\ task' = [task EXCEPT ![ActivePods[added + 1]] = "next"]
    /\ UNCHANGED <<cfgVars, pc, rx_open, agg_tx, queue, pending, budget,
                   yielded, forwarded, received, stalled, rendVars>>

\* mutant: before the error is returned, what the earlier ingestors have
\* sent is received and printed
AddPodFailPrintsQueued ==
    /\ pc = "setup"
    /\ added < Len(ActivePods)
    /\ pc' = "failed"
    /\ rx_open' = FALSE
    /\ agg_tx' = FALSE
    /\ queue' = <<>>
    /\ printed' = printed \o SelectSeq(queue, LAMBDA v : v.ok)
    /\ UNCHANGED <<cfgVars, added, task, pending, child, budget, yielded,
                   forwarded, received, stalled, pod_buffers, formatter>>

\* client.get_pod_logs(pod, ..)? fails: run_* returns the error and the
\* aggregator is dropped with both ends of the channel; dropping the
\* Receiver closes the channel and discards what is buffered
AddPodFail ==
    /\ pc = "setup"
    /\ added < Len(ActivePods)
    /\ pc' = "failed"
    /\ rx_open' = FALSE
    /\ agg_tx' = FALSE
    /\ queue' = <<>>
    /\ UNCHANGED <<cfgVars, added, task, pending, child, budget, yielded,
                   forwarded,
                   received, stalled, rendVars>>

\* mutant: stream() hands out the Receiver and the aggregator's Sender lives on
TakeStreamKeepsSender ==
    /\ pc = "setup"
    /\ added = Len(ActivePods)
    /\ pc' = "recv"
    /\ UNCHANGED <<cfgVars, added, rx_open, agg_tx, queue, task, pending, child,
                   budget, yielded, forwarded, received, stalled, rendVars>>

\* mutant: add_pod_stream reads the stream to its end itself, and stream()
\* is reached when no ingestor is left
TakeStreamAfterIngestors ==
    /\ pc = "setup"
    /\ added = Len(ActivePods)
    /\ \A p \in Pods : ~ TaskAlive(p)
    /\ pc' = "recv"
    /\ agg_tx' = FALSE
    /\ UNCHANGED <<cfgVars, added, rx_open, queue, task, pending, child,
                   budget, yielded, forwarded, received, stalled, rendVars>>

\* aggregator.stream(): self is consumed, rx is returned, self.tx is dropped
TakeStream ==
    /\ pc = "setup"
    /\ added = Len(ActivePods)
    /\ pc' = "recv"
    /\ agg_tx' = FALSE
    /\ UNCHANGED <<cfgVars, added, rx_open, queue, task, pending, child,
                   budget, yielded, forwarded, received, stalled, rendVars>>

(* ----------------------------- renderer ------------------------------- *)

\* mutant: every receive loop prints an accepted entry at once
OnEntryPrintsAtOnce(entry) ==
    /\ pc' = "recv"
    /\ printed' = IF Passes(entry) THEN Append(printed, entry) ELSE printed
    /\ formatter' = IF Passes(entry)
                    THEN FormatColored(formatter, entry).formatter
                    ELSE formatter
    /\ pod_buffers' =
           IF Passes(entry) /\ Mode = "tail_no_follow"
           THEN [pod_buffers EXCEPT ![entry.pod_name] = Append(@, entry)]
           ELSE pod_buffers

\* mutant: the newest entry is printed in front of the older ones
OnEntryPrintsInFront(entry) ==
    /\ pc' = "recv"
    /\ IF ~ Passes(entry)
       THEN UNCHANGED rendVars
       ELSE IF Mode = "tail_no_follow"
            THEN /\ pod_buffers' =
                        [pod_buffers EXCEPT ![entry.pod_name] = Append(@, entry)]
                 /\ printed' = printed
                 /\ formatter' = formatter
            ELSE /\ printed' = <<entry>> \o printed
                 /\ formatter' = FormatColored(formatter, entry).formatter
                 /\ pod_buffers' = pod_buffers

\* the Ok(entry) arm of the three receive loops: filter, then print at once
\* (run_standard, run_with_tail_follow) or buffer (run_with_tail_no_follow)
OnEntry(entry) ==
    /\ pc' = "recv"
    /\ IF ~ Passes(entry)
       THEN UNCHANGED rendVars
       ELSE IF Mode = "tail_no_follow"
            THEN /\ pod_buffers' =
                        [pod_buffers EXCEPT ![entry.pod_name] = Append(@, entry)]
                 /\ printed' = printed
                 /\ formatter' = formatter
            ELSE /\ printed' = Append(printed, entry)
                 /\ formatter' = FormatColored(formatter, entry).formatter
                 /\ pod_buffers' = pod_buffers

\* mutant: the Err arm treats the error like an entry
OnErrorRendered(e) == OnEntry(e)

\* mutant: the Err arm leaves the receive loop
OnErrorBreak(e) ==
    /\ pc' = "done"
    /\ UNCHANGED rendVars

\* the Err(e) arm: error!("Error receiving log entry") and go on
OnError(e) ==
    /\ pc' = "recv"
    /\ UNCHANGED rendVars

\* log_stream.recv().await returns Some(entry_result)
Recv ==
    /\ pc = "recv"
    /\ queue # <<>>
    /\ queue' = Tail(queue)
    /\ received' = [received EXCEPT ![Head(queue).pod_name] = Append(@, Head(queue))]
    /\ IF Head(queue).ok THEN OnEntry(Head(queue)) ELSE OnError(Head(queue))
    /\ UNCHANGED <<cfgVars, added, rx_open, agg_tx, task, pending, child,
                   budget, yielded, forwarded, stalled>>

\* mutant: the oldest tail_count entries of the buffer are displayed
FirstN(buffer, n) ==
    IF Len(buffer) > n THEN SubSeq(buffer, 1, n) ELSE buffer

\* &buffer[buffer.len() - tail_count..] when longer than tail_count
LastN(buffer, n) ==
    IF Len(buffer) > n
    THEN SubSeq(buffer, Len(buffer) - n + 1, Len(buffer))
    ELSE buffer

\* the orders in which a HashMap may iterate over the pods
PodOrders ==
    {o \in [1..NumPods -> Pods] : \A i, j \in 1..NumPods : o[i] = o[j] => i = j}

RECURSIVE Display(_, _)
\* what the display loop of run_with_tail_no_follow prints for the pods
\* order[i..]
Display(order, i) ==
    IF i > NumPods THEN <<>>
    ELSE LastN(pod_buffers[order[i]], tail[1]) \o Display(order, i + 1)

\* log_stream.recv().await returns None: the loop ends, tail mode prints
\* its buffers, run_* returns Ok(()) and the Receiver is dropped
RecvNone ==
    /\ pc = "recv"
    /\ ChannelClosed
    /\ pc' = "done"
    /\ rx_open' = FALSE
    /\ IF Mode = "tail_no_follow"
       THEN \E order \in PodOrders :
               \E logs_to_display \in {Display(order, 1)} :
                   /\ printed' = printed \o logs_to_display
                   /\ formatter' = RenderAll(formatter, logs_to_display).formatter
       ELSE printed' = printed /\ formatter' = formatter
    /\ UNCHANGED <<cfgVars, added, agg_tx, queue, task, pending, child,
                   budget, yielded, forwarded, received, stalled, pod_buffers>>

(* ----------------------- kubectl child and reaper ---------------------- *)

\* mutant: the reaper reports a non-zero status into the channel
ReapReports(p) ==
    /\ child[p] = "running"
    /\ \E st \in {"exit_ok", "exit_fail"} :
          /\ child' = [child EXCEPT ![p] = st]
          /\ queue' = IF st = "exit_fail" /\ rx_open
                      THEN Append(queue, PodError(p, <<"exit">>))
                      ELSE queue
    /\ UNCHANGED <<cfgVars, pc, added, rx_open, agg_tx, task, pending,
                   budget, yielded, forwarded, received, stalled, rendVars>>

\* the kubectl process ends and its stdout reaches end-of-file; in the task
\* spawned by get_pod_logs child.wait().await returns the status, and a
\* non-zero one is logged with error!(..); nothing else happens
Reap(p) ==
    /\ child[p] = "running"
    /\ \E st \in {"exit_ok", "exit_fail"} : child' = [child EXCEPT ![p] = st]
    /\ UNCHANGED <<cfgVars, pc, added, rx_open, agg_tx, queue, task, pending,
                   budget, yielded, forwarded, received, stalled, rendVars>>

(* ------------------------------ ingestor ------------------------------- *)

\* log_stream.next().await returns Some(item): the task builds the value to
\* send and starts tx.send(..)
Yield(p, item) ==
    /\ yielded' = [yielded EXCEPT ![p] = Append(@, item)]
    /\ \E value \in {Forward(p, item)} :
          /\ pending' = [pending EXCEPT ![p] = Some(value)]
          /\ forwarded' = [forwarded EXCEPT ![p] = Append(@, value)]
    /\ task' = [task EXCEPT ![p] = "send"]
    /\ stalled' = IF rx_open /\ Len(queue) = Capacity
                  THEN stalled \cup {p}
                  ELSE stalled \ {p}

\* log_stream.next().await returns Some(Ok(bytes)) or Some(Err(e)); a read
\* error is possible while the stream's error window is open
StreamNext(p) ==
    /\ task[p] = "next"
    /\ child[p] = "running"
    /\ budget[p].items > 0
    /\ budget' = [budget EXCEPT ![p] =
                     [items |-> @.items - 1,
                      errs |-> IF @.errs > 0 THEN @.errs - 1 ELSE 0]]
    /\ \E ok \in (IF budget[p].errs > 0 THEN BOOLEAN ELSE {TRUE}) :
          Yield(p, IF ok THEN StreamLine(Len(yielded[p]) + 1)
                         ELSE StreamErr(Len(yielded[p]) + 1))
    /\ UNCHANGED <<cfgVars, pc, added, rx_open, agg_tx, queue, child,
                   received, rendVars>>

\* the stream yields None: the while-let loop ends and the task returns,
\* dropping its Sender clone
StreamEnd(p) ==
    /\ task[p] = "next"
    /\ child[p] \in {"exit_ok", "exit_fail"}
    /\ task' = [task EXCEPT ![p] = "ended"]
    /\ UNCHANGED <<cfgVars, pc, added, rx_open, agg_tx, queue, pending, child,
                   budget, yielded, forwarded, received, stalled, rendVars>>

\* where the task goes after tx.send(Ok(entry)).await returned
AfterSendEntry(sent) == IF sent THEN "next" ELSE "ended"

\* mutant: a read error ends the ingestor
AfterSendErrorStops(sent) == "ended"

\* where the task goes after tx.send(Err(..)).await returned
AfterSendError(sent) == "sleep"

\* mutant: the newest value overtakes the buffered ones
EnqueueFront(q, v) == <<v>> \o q

\* what a completed send leaves in the channel buffer
Enqueue(q, v) == Append(q, v)

\* mutant: try_send in place of send(..).await, a value that finds the
\* buffer full is dropped and the task goes on
TrySend(p) ==
    /\ task[p] = "send"
    /\ queue' = IF rx_open /\ Len(queue) < Capacity
                THEN Enqueue(queue, pending[p][1])
                ELSE queue
    /\ task' = [task EXCEPT ![p] =
                   IF pending[p][1].ok
                   THEN AfterSendEntry(rx_open)
                   ELSE AfterSendError(rx_open)]
    /\ pending' = [pending EXCEPT ![p] = None]
    /\ UNCHANGED <<cfgVars, pc, added, rx_open, agg_tx, child, budget,
                   yielded, forwarded, received, stalled, rendVars>>

\* tx.send(value).await returns: Ok(()) after the value is buffered, or
\* Err(SendError) when the Receiver is gone
Send(p) ==
    /\ task[p] = "send"
    /\ SendReady
    /\ queue' = IF rx_open THEN Enqueue(queue, pending[p][1]) ELSE queue
    /\ task' = [task EXCEPT ![p] =
                   IF pending[p][1].ok
                   THEN AfterSendEntry(rx_open)
                   ELSE AfterSendError(rx_open)]
    /\ pending' = [pending EXCEPT ![p] = None]
    /\ UNCHANGED <<cfgVars, pc, added, rx_open, agg_tx, child, budget,
                   yielded, forwarded, received, stalled, rendVars>>

\* sleep(Duration::from_millis(500)).await returns
Wake(p) ==
    /\ task[p] = "sleep"
    /\ task' = [task EXCEPT ![p] = "next"]
    /\ UNCHANGED <<cfgVars, pc, added, rx_open, agg_tx, queue, pending, child,
                   budget, yielded, forwarded, received, stalled, rendVars>>

(* ---------------------------- specification --------------------------- *)

Next ==
    \/ Run
    \/ AddPod
    \/ AddPodFail
    \/ TakeStream
    \/ Recv
    \/ RecvNone
    \/ \E p \in Pods : Reap(p)
    \/ \E p \in Pods : StreamNext(p)
    \/ \E p \in Pods : StreamEnd(p)
    \/ \E p \in Pods : Send(p)
    \/ \E p \in Pods : Wake(p)

Spec == Init /\ [][Next]_vars

SpecBurst == InitBurst /\ [][Next]_vars

SpecFilter == InitFilter /\ [][Next]_vars

SpecParse == InitParse /\ [][Next]_vars

SpecLevel == InitLevel /\ [][Next]_vars

SpecPods == InitPods /\ [][Next]_vars

SpecSpans == InitSpans /\ [][Next]_vars

\* the tokio scheduler runs every task that can make progress, the channel's
\* semaphore serves waiting senders in turn, kubectl without -f ends by
\* itself, and get_pod_logs returns
Fairness ==
    /\ WF_vars(Run)
    /\ WF_vars(AddPod \/ AddPodFail)
    /\ WF_vars(TakeStream)
    /\ WF_vars(Recv)
    /\ WF_vars(RecvNone)
    /\ \A p \in Pods :
          /\ WF_vars(~ follow /\ Reap(p))
          /\ WF_vars(StreamEnd(p))
          /\ SF_vars(Send(p))
          /\ WF_vars(Wake(p))

LiveSpec == InitLive /\ [][Next]_vars /\ Fairness

\* a burst under the same scheduling
LiveBurst == InitBurstLive /\ [][Next]_vars /\ Fairness

(* ------------------------- derived quantities -------------------------- *)

\* the values the ingestor of pod p has had to send so far, in stream order
Forwarded(p) == forwarded[p]

\* the values of pod p that are received, buffered or being sent, oldest first
Contributed(p) == received[p] \o SelectSeq2(queue, p) \o pending[p]

IsOk(v) == v.ok
IsErr(v) == ~ v.ok

IsPrefix(s, t) == Len(s) <= Len(t) /\ s = SubSeq(t, 1, Len(s))

(* ------------------------------- claims -------------------------------- *)

\* C1: for every pod, whatever the interleaving of the ingestor tasks, the
\* values the consumer has received from that pod (entries and errors) are a
\* prefix of what the pod's stream yielded, in the stream's order.
C1_PerSourceOrder ==
    \A p \in Pods : IsPrefix(received[p], Forwarded(p))

\* C1 witness: two values of one pod were printed around a value of another
C1_Witness ==
    /\ Len(printed) = 3
    /\ printed[1].pod_name = printed[3].pod_name
    /\ printed[2].pod_name # printed[1].pod_name

\* C2: while the consumer holds the Receiver, every line a task has read is
\* received, buffered or being sent exactly once and in order, and when the
\* consumer has drained the stream to its end it has received every line
\* exactly once, also the lines read while the buffer was full.
C2_NoLineLost ==
    /\ rx_open =>
          \A p \in Pods :
              SelectSeq(Contributed(p), IsOk) = SelectSeq(Forwarded(p), IsOk)
    /\ pc = "done" =>
          \A p \in Pods :
              SelectSeq(received[p], IsOk) = SelectSeq(Forwarded(p), IsOk)

\* C2 witness: the run is complete, more lines than the channel holds were
\* delivered, and the last one was read while the buffer was full
C2_Witness ==
    /\ pc = "done"
    /\ \E p \in stalled :
          /\ Len(SelectSeq(received[p], IsOk)) > Capacity
          /\ received[p] = Forwarded(p)

\* C3 (as amended): the buffer never holds more than 100 values; while the
\* Receiver is alive a task whose send finds 100 values buffered stays
\* suspended with its value through every step taken from such a state,
\* and when such a send completes with the Receiver alive its value is the
\* newest in the buffer.
C3_BoundedAndSuspended ==
    /\ [](Len(queue) <= Capacity)
    /\ [][\A p \in Pods :
             /\ (task[p] = "send" /\ rx_open /\ Len(queue) = Capacity)
                    => (task'[p] = "send" /\ pending'[p] = pending[p])
             /\ (p \in stalled /\ rx_open /\ task[p] = "send" /\ task'[p] # "send")
                    => (Len(queue') > 0 /\ queue'[Len(queue')] = pending[p][1])]_vars

\* C3 witness: a send that was suspended on a full buffer has completed after
\* the consumer made room, and its value is the newest of a buffer full again
C3_Witness ==
    \E p \in stalled :
        /\ pc = "recv"
        /\ task[p] = "next"
        /\ Len(queue) = Capacity
        /\ queue[Len(queue)] = Forward(p, yielded[p][Len(yielded[p])])

\* C3 (as stated): a send that found 100 values buffered never fails and
\* never drops its value, whenever it completes the value is in the buffer.
C3_Original ==
    [][\A p \in Pods :
          (p \in stalled /\ task[p] = "send" /\ task'[p] # "send")
              => (Len(queue') > 0 /\ queue'[Len(queue')] = pending[p][1])]_vars

\* C4: when recv() has returned None every ingestor task has ended, the
\* aggregator's own Sender is gone, and nothing is buffered or being sent.
C4_EndOfStream ==
    pc = "done" =>
        /\ \A p \in Pods : task[p] = "ended" /\ pending[p] = None
        /\ ~ agg_tx
        /\ queue = <<>>

\* C4 witness: end-of-stream is observed after values were received
C4_Witness ==
    /\ pc = "done"
    /\ \E p \in Pods : Len(received[p]) > 0
    /\ \A p \in Pods : task[p] = "ended"

\* C5: in non-follow mode, once the receive loop has started, under fair
\* scheduling recv() eventually returns None and the run returns.
C5_Terminates == (~ follow /\ pc = "recv") ~> (pc = "done")

\* C5 witness: a non-follow run has returned after receiving entries and errors
C5_Witness ==
    /\ ~ follow
    /\ pc = "done"
    /\ \E p \in Pods : \E i, j \in 1..Len(received[p]) :
          received[p][i].ok /\ ~ received[p][j].ok

\* C6 (as stated): once the Receiver is gone, a send that completes, of an
\* entry or of an error, ends the task.
C6_ClosedSendStops ==
    [][\A p \in Pods :
          (~ rx_open /\ task[p] = "send" /\ task'[p] # "send")
              => task'[p] = "ended"]_vars

\* C7: while the Receiver is alive, every read error of a pod is forwarded
\* as exactly one error value naming the pod, in stream position; the task
\* ends only at the stream's end-of-file, never because of the error; and
\* when the stream has been drained everything yielded after an error has
\* been received too.
C7_ErrorForwardedAndReadingGoesOn ==
    /\ rx_open =>
          \A p \in Pods :
              /\ SelectSeq(Contributed(p), IsErr) = SelectSeq(Forwarded(p), IsErr)
              /\ task[p] = "ended" => child[p] \in {"exit_ok", "exit_fail"}
    /\ pc = "done" =>
          \A p \in Pods : Len(received[p]) = Len(yielded[p])

\* C7 witness: a line read after a read error has been received as an entry
C7_Witness ==
    \E p \in Pods : \E i, j \in 1..Len(received[p]) :
        /\ i < j
        /\ ~ yielded[p][i].ok
        /\ received[p][i] = PodError(p, yielded[p][i].bytes)
        /\ received[p][j].ok

Accepted(v) == v.ok /\ Passes(v)

\* what the renderer has printed (stream modes) or buffered (tail mode) of pod p
Rendered(p) ==
    IF Mode = "tail_no_follow" THEN pod_buffers[p] ELSE SelectSeq2(printed, p)

\* C8: in every mode, the step that receives an error keeps the receive
\* loop going and prints and buffers nothing, and at every moment what is
\* rendered of a pod is exactly the received entries that pass the filter,
\* those received after an error included.
C8_ErrorsSkipped ==
    /\ [][(pc = "recv" /\ queue # <<>> /\ ~ Head(queue).ok /\ received' # received)
             => (pc' = "recv" /\ printed' = printed /\ pod_buffers' = pod_buffers)]_vars
    /\ [](\A p \in Pods : Rendered(p) = SelectSeq(received[p], Accepted))

\* C8 witness: an entry received after an error has been rendered
C8_Witness ==
    \E p \in Pods : \E i, j \in 1..Len(received[p]) :
        /\ i < j
        /\ ~ received[p][i].ok
        /\ received[p][j].ok
        /\ \E k \in 1..Len(Rendered(p)) : Rendered(p)[k] = received[p][j]

\* C9: under fair scheduling, whatever the other sources do (read errors,
\* early end-of-file, non-zero exit), whenever a source's stream has yielded
\* items that are not yet received, eventually every item it has yielded is
\* received, unless opening a source failed.
C9_OthersDelivered ==
    \A p \in Pods :
        (Len(received[p]) < Len(yielded[p]))
            ~> (Len(received[p]) = Len(yielded[p]) \/ pc = "failed")

\* C9 witness: one source had a read error and a non-zero exit, and all the
\* lines of another source were received
C9_Witness ==
    \E p, q \in Pods :
        /\ p # q
        /\ child[p] = "exit_fail"
        /\ \E i \in 1..Len(yielded[p]) : ~ yielded[p][i].ok
        /\ Len(yielded[q]) > 0
        /\ received[q] = Forwarded(q)
        /\ \A i \in 1..Len(received[q]) : received[q][i].ok

\* C10: while the Receiver is alive, what a pod has contributed (received,
\* buffered or being sent) is exactly one value per item its stream yielded:
\* nothing is added at end-of-file or when kubectl exits with a non-zero
\* status.
C10_OneValuePerItem ==
    rx_open => \A p \in Pods : Contributed(p) = Forwarded(p)

\* C10 witness: a pod's task has ended at end-of-file after a non-zero exit
C10_Witness ==
    \E p \in Pods :
        /\ rx_open
        /\ task[p] = "ended"
        /\ child[p] = "exit_fail"
        /\ Len(yielded[p]) > 0
        /\ Contributed(p) = Forwarded(p)

Min(a, b) == IF a < b THEN a ELSE b

C12_NoPrintBeforeEnd ==
    Mode = "tail_no_follow" =>
        /\ pc # "done" => printed = <<>>
        /\ (\E p \in Pods : TaskAlive(p)) => printed = <<>>

\* C12 witness: accepted entries are buffered, an ingestor is still running
\* and nothing is printed
C12_Witness ==
    /\ Mode = "tail_no_follow"
    /\ pc = "recv"
    /\ \E p \in Pods : pod_buffers[p] # <<>>
    /\ \E p \in Pods : TaskAlive(p)
    /\ printed = <<>>

\* C13: in stream mode (run_standard, run_with_tail_follow) the step that
\* receives an entry prints it at once when the root filter matches it and
\* prints nothing otherwise; with no filter every received entry is printed.
C13_StreamPrintsIffMatch ==
    [][(Mode # "tail_no_follow" /\ pc = "recv" /\ queue # <<>>
            /\ Head(queue).ok /\ received' # received)
         => /\ printed' = IF filters = <<>>
                              \/ \A i \in 1..Len(filters) : Apply(filters[i], Head(queue))
                          THEN Append(printed, Head(queue))
                          ELSE printed
            /\ pod_buffers' = pod_buffers]_vars

\* C13 witness: in stream mode with a filter, one received entry was printed
\* and another was not
C13_Witness ==
    /\ Mode # "tail_no_follow"
    /\ filters # <<>>
    /\ \E p, q \in Pods :
          /\ \E i \in 1..Len(received[p]) :
                 /\ received[p][i].ok
                 /\ \E k \in 1..Len(printed) : printed[k] = received[p][i]
          /\ \E j \in 1..Len(received[q]) :
                 /\ received[q][j].ok
                 /\ \A k \in 1..Len(printed) : printed[k] # received[q][j]

\* C14: tail and follow never change, and at every reception of an accepted
\* entry the renderer is in tail mode (the entry is buffered, nothing is
\* printed) exactly when a tail count is given and follow is false, and in
\* stream mode (the entry is printed, nothing is buffered) otherwise.
C14_ModeFixed ==
    /\ [][tail' = tail /\ follow' = follow]_vars
    /\ [][(pc = "recv" /\ queue # <<>> /\ Head(queue).ok
              /\ received' # received /\ Passes(Head(queue)))
           => IF tail # None /\ ~ follow
              THEN /\ printed' = printed
                   /\ pod_buffers' # pod_buffers
              ELSE /\ printed' = Append(printed, Head(queue))
                   /\ pod_buffers' = pod_buffers]_vars
    /\ []((tail = None \/ follow) =>
             \A p \in Pods : pod_buffers[p] = <<>>)

\* C14 witness: with a tail count and follow, entries have been printed
\* while the stream is open and nothing is buffered
C14_Witness ==
    /\ tail # None
    /\ follow
    /\ pc = "recv"
    /\ Len(printed) >= 2
    /\ \A p \in Pods : pod_buffers[p] = <<>>

(* --------------------- what the filter claims speak of ----------------- *)

\* the lines the created filters are probed with
ProbeLines == Strings({"a", "b", ",", " ", "(", "INFO", "ERROR"}, MaxProbe)

\* s without the whitespace around it
Stripped(s) ==
    IF \A i \in 1..Len(s) : s[i] = " "
    THEN <<>>
    ELSE LET a == CHOOSE a \in 1..Len(s) :
                      s[a] # " " /\ \A k \in 1..(a - 1) : s[k] = " "
             b == CHOOSE b \in 1..Len(s) :
                      s[b] # " " /\ \A k \in (b + 1)..Len(s) : s[k] = " "
         IN SubSeq(s, a, b)

\* the fragments of an expression between the separators d, without the
\* whitespace around them, the empty ones left out
Fragments(expr, d) ==
    {Stripped(SubSeq(expr, i, j)) :
        <<i, j>> \in {ij \in (1..(Len(expr) + 1)) \X (0..Len(expr)) :
                        /\ ij[1] <= ij[2] + 1
                        /\ ij[1] = 1 \/ expr[ij[1] - 1] = d
                        /\ ij[2] = Len(expr) \/ expr[ij[2] + 1] = d
                        /\ \A k \in ij[1]..ij[2] : expr[k] # d}}
        \ {<<>>}

\* the separator of a pattern expression
Separator(expr) == IF \E i \in 1..Len(expr) : expr[i] = "&" THEN "&" ELSE ","

\* the fragments of a pattern and of a level expression
GrepFragments(expr) == Fragments(expr, Separator(expr))
LevelFragments(expr) == Fragments(expr, ",")

\* the text pat occurs in the line
Occurs(pat, line) ==
    \E i \in 1..(Len(line) + 1) :
        \A j \in 1..Len(pat) : i + j - 1 <= Len(line) /\ line[i + j - 1] = pat[j]

\* the fragment names a log level
IsLevelName(f) == Len(f) = 1 /\ ToUpper(f[1]) \in valid_levels

\* a line of the level named by the fragment f
OfLevel(f, line) ==
    \E made \in {LevelFilterNew(f)} : \E e \in {LogEntry(pods[1], line)} :
        Apply(made.val, e)

\* the root filter list fs lets the line through
Accepts(fs, line) ==
    \A e \in {LogEntry(pods[1], line)} : \A i \in 1..Len(fs) : Apply(fs[i], e)

\* run() has created the filters and goes on to a run_* function
Created == pc = "args" /\ pc' = "setup"

\* C15: the filters run() creates accept a line exactly when the pattern
\* expression, if it has fragments, is satisfied (all of its '&' fragments
\* occur in the line when it contains '&', otherwise one of its ','
\* fragments does) and the level expression, if it has fragments, is
\* satisfied (the line is of the level of one of its ',' fragments).
C15_Composition ==
    [][Created =>
         \A line \in ProbeLines : \A e \in {LogEntry(pods[1], line)} :
            Passes(e)' =
               (/\ \/ grep = None
                   \/ GrepFragments(grep[1]) = {}
                   \/ IF Separator(grep[1]) = "&"
                      THEN \A f \in Fragments(grep[1], "&") : Occurs(f, line)
                      ELSE \E f \in Fragments(grep[1], ",") : Occurs(f, line)
                /\ \/ level = None
                   \/ Fragments(level[1], ",") = {}
                   \/ \E f \in Fragments(level[1], ",") : OfLevel(f, line))]_vars

\* C15 witness: a pattern expression of two '&' fragments and a level
\* expression gave a root AND of an AND and an OR, and it rejected a
\* received entry of the level in which only one of the patterns occurs
C15_Witness ==
    /\ grep # None
    /\ level # None
    /\ Cardinality(Fragments(grep[1], "&")) = 2
    /\ Len(filters) = 1
    /\ filters[1].kind = "and"
    /\ Len(filters[1].filters) = 2
    /\ filters[1].filters[1].kind = "and"
    /\ Len(filters[1].filters[1].filters) = 2
    /\ filters[1].filters[2].kind = "or"
    /\ \E p \in Pods : \E i \in 1..Len(received[p]) :
          /\ received[p][i].ok
          /\ Apply(filters[1].filters[2], received[p][i])
          /\ Apply(filters[1].filters[1].filters[1], received[p][i])
          /\ ~ Apply(filters[1].filters[1].filters[2], received[p][i])
    /\ printed = <<>>

\* C16: when a fragment of the level expression is not a level name (a
\* pattern fragment is never refused), run() ends with a configuration
\* error: no ingestor task and no kubectl is ever started, no filter is
\* kept and nothing is received or rendered.
C16_InvalidFragmentAborts ==
    (level # None /\ \E f \in Fragments(level[1], ",") : ~ IsLevelName(f)) =>
        /\ pc \in {"args", "config_error"}
        /\ pc = "config_error" => error # None
        /\ filters = <<>>
        /\ \A p \in Pods :
              /\ task[p] = "idle"
              /\ child[p] = "none"
              /\ yielded[p] = <<>>
              /\ received[p] = <<>>
              /\ pod_buffers[p] = <<>>
        /\ printed = <<>>

\* C16 witness: a level expression with a level name and a fragment that is
\* none, after a valid pattern expression, ended in a configuration error
C16_Witness ==
    /\ pc = "config_error"
    /\ grep # None
    /\ GrepFragments(grep[1]) # {}
    /\ level # None
    /\ \E f \in Fragments(level[1], ",") : IsLevelName(f)
    /\ \E f \in Fragments(level[1], ",") : ~ IsLevelName(f)
    /\ filters = <<>>

\* C17 as stated: the configuration error contains the text of the
\* expression as the user supplied it.
C17_Original ==
    error # None => Occurs(level[1], error[1])

\* C17: the configuration error contains the offending fragment, without
\* the whitespace around it and otherwise as the user supplied it: it is
\* "Invalid log level: " followed by a fragment of the level expression
\* that is not a level name.
C17_ErrorQuotesFragment ==
    error # None =>
        \E f \in Fragments(level[1], ",") :
            /\ ~ IsLevelName(f)
            /\ error[1] = <<"Invalid log level: ">> \o f

\* C17 witness: the error quotes a fragment in lower case that is only a
\* part of the expression
C17_Witness ==
    /\ error # None
    /\ Occurs(<<"bogus">>, error[1])
    /\ ~ Occurs(level[1], error[1])

\* an expression with one more symbol c after the first i symbols
Inserted(expr, i, c) == SubSeq(expr, 1, i) \o <<c>> \o SubSeq(expr, i + 1, Len(expr))

\* the pattern expressions that differ from expr in one more space or
\* separator and have the same fragments
AlikeGrep(expr) ==
    {e \in {Inserted(expr, i, c) : i \in 0..Len(expr), c \in {" ", ",", "&"}} :
        GrepFragments(e) = GrepFragments(expr)}

\* the level expressions that differ from expr in one more space or
\* separator and have the same fragments
AlikeLevel(expr) ==
    {e \in {Inserted(expr, i, c) : i \in 0..Len(expr), c \in {" ", ","}} :
        LevelFragments(e) = LevelFragments(expr)}

\* C18: an expression with one more space around a fragment or one more
\* empty fragment gives filters that accept the same lines (and fails when
\* the expression fails), for the pattern and for the level expression; an
\* expression whose fragments are all empty gives what no expression gives.
C18_TrimAndSkipEmpty ==
    [][(pc = "args" /\ pc' # "args") =>
         /\ grep # None =>
               /\ \A e \in AlikeGrep(grep[1]) :
                      LET made == CreateFilters(Some(e), level)
                      IN /\ made.ok = (error' = None)
                         /\ made.ok =>
                               \/ made.val = filters'
                               \/ \A line \in ProbeLines :
                                     Accepts(made.val, line) =
                                        Passes(LogEntry(pods[1], line))'
               /\ GrepFragments(grep[1]) = {} =>
                      /\ CreateFilters(None, level).ok = (error' = None)
                      /\ error' = None => filters' = CreateFilters(None, level).val
         /\ level # None =>
               /\ \A e \in AlikeLevel(level[1]) :
                      LET made == CreateFilters(grep, Some(e))
                      IN /\ made.ok = (error' = None)
                         /\ made.ok =>
                               \/ made.val = filters'
                               \/ \A line \in ProbeLines :
                                     Accepts(made.val, line) =
                                        Passes(LogEntry(pods[1], line))'
               /\ LevelFragments(level[1]) = {} =>
                      /\ error' = None
                      /\ filters' = CreateFilters(grep, None).val]_vars

\* C18 witness: an expression with an empty fragment and a space around a
\* fragment gave a filter of one pattern, and an entry passed it
C18_Witness ==
    /\ grep \in {Some(<<",", " ", "a">>), Some(<<"a", " ", ",">>)}
    /\ level = None
    /\ Len(filters) = 1
    /\ Len(filters[1].filters) = 1
    /\ filters[1].filters[1].pattern = <<"a">>
    /\ printed # <<>>

\* the AndFilters and OrFilters of a root filter list
Composites(fs) ==
    {fs[i] : i \in {i \in 1..Len(fs) : fs[i].kind \in {"and", "or"}}}
    \cup {fs[i].filters[j] :
             <<i, j>> \in {ij \in (1..Len(fs)) \X (1..MaxExpr + 1) :
                             /\ ij[2] <= Len(fs[ij[1]].filters)
                             /\ fs[ij[1]].filters[ij[2]].kind \in {"and", "or"}}}

\* C19: for the first k children of every composite filter run() creates,
\* k = 0 included, an AndFilter of them matches a line exactly when each of
\* them matches it and an OrFilter of them exactly when one of them does:
\* without children the AndFilter matches and the OrFilter does not.
C19_AndOrSemantics ==
    [][Created =>
         \A n \in Composites(filters') : \A k \in 0..Len(n.filters) :
            LET children == SubSeq(n.filters, 1, k)
            IN \A line \in ProbeLines :
                  LET entry == LogEntry(pods[1], line)
                  IN /\ Apply(AndFilter(children), entry) =
                           (\A i \in 1..k : Apply(children[i], entry))
                     /\ Apply(OrFilter(children), entry) =
                           (\E i \in 1..k : Apply(children[i], entry))
                     /\ k = 0 => /\ Apply(AndFilter(children), entry)
                                 /\ ~ Apply(OrFilter(children), entry)]_vars

\* C19 witness: an OrFilter of two patterns of which the received line
\* matches only one let the entry through
C19_Witness ==
    /\ Len(filters) = 1
    /\ filters[1].kind = "or"
    /\ Len(filters[1].filters) = 2
    /\ \E i \in 1..Len(printed) :
          /\ Apply(filters[1].filters[1], printed[i])
             # Apply(filters[1].filters[2], printed[i])
          /\ ~ Apply(AndFilter(filters[1].filters), printed[i])

\* the GrepFilters of a root filter list
GrepLeaves(fs) ==
    {f \in UNION {{fs[i].filters[j] : j \in 1..Len(fs[i].filters)} : i \in 1..Len(fs)}
            \cup UNION {UNION {{fs[i].filters[j].filters[k] :
                                    k \in 1..Len(fs[i].filters[j].filters)} :
                                j \in 1..Len(fs[i].filters)} :
                            i \in 1..Len(fs)} :
        f.kind = "grep"}

\* C20: GrepFilter::new refuses no pattern: whatever the pattern expression
\* is, run() fails only on the level expression and creates one GrepFilter
\* for every fragment; the filter of a fragment that is not a regex (it
\* opens a group and does not close it) matches exactly the lines in which
\* the text of the fragment occurs.
C20_GrepNeverFails ==
    [][(pc = "args" /\ pc' # "args") =>
         /\ (level = None /\ grep # None) =>
               /\ error' = None
               /\ {f.pattern : f \in GrepLeaves(filters')}
                     = GrepFragments(grep[1])
         /\ \A f \in GrepLeaves(filters') :
               (\E i \in 1..Len(f.pattern) : f.pattern[i] = "(") =>
                   \A line \in ProbeLines :
                      Apply(f, LogEntry(pods[1], line)) = Occurs(f.pattern, line)]_vars

\* C20 witness: the pattern "(" gave a filter
C20_Witness ==
    /\ grep = Some(<<"(">>)
    /\ pc = "setup"
    /\ Len(filters) = 1
    /\ filters[1].filters[1].pattern = <<"(">>
    /\ filters[1].filters[1].regex = <<"(">>

(* ------------------------- LogEntry::parse ---------------------------- *)

\* C28: in every entry that reached the renderer, the message is what
\* follows the first space of the cleaned line (nothing, when the line ends
\* with its first space), and the whole cleaned line when it has no space.
C28_MessageAfterFirstSpace ==
    \A p \in Pods : \A i \in 1..Len(received[p]) :
        LET e == received[p][i]
            n == Len(e.raw_line)
        IN e.ok =>
             IF \E j \in 1..n : e.raw_line[j] = " "
             THEN \E j \in 1..n :
                     /\ e.raw_line[j] = " "
                     /\ \A k \in 1..(j - 1) : e.raw_line[k] # " "
                     /\ e.message = SubSeq(e.raw_line, j + 1, n)
             ELSE e.message = e.raw_line

\* C28 witness: a line with two spaces was parsed, its message starts with
\* the second one
C28_Witness ==
    /\ Len(received[pods[1]]) = 1
    /\ received[pods[1]][1].ok
    /\ received[pods[1]][1].raw_line = <<" ", " ", "a">>
    /\ received[pods[1]][1].message = <<" ", "a">>

\* C29: the raw_line of an entry the renderer receives holds no carriage
\* return and no NUL, and its message is a function of that raw_line alone:
\* whatever pod and whatever line parse to the same raw_line give the same
\* message.
C29_CleanedLineDeterminesMessage ==
    [][\A p \in Pods :
          Len(received'[p]) > Len(received[p]) =>
             LET e == received'[p][Len(received'[p])]
             IN e.ok =>
                  /\ \A j \in 1..Len(e.raw_line) : e.raw_line[j] \notin {CR, NUL}
                  /\ \A q \in Pods : \A line \in ParseLines :
                        LogEntry(q, line).raw_line = e.raw_line
                            => LogEntry(q, line).message = e.message]_vars

\* C29 witness: a line with a carriage return and a NUL around one letter
\* was parsed
C29_Witness ==
    /\ Len(received[pods[1]]) = 1
    /\ yielded[pods[1]][1].ok
    /\ yielded[pods[1]][1].bytes = <<CR, "a", NUL>>
    /\ received[pods[1]][1].raw_line = <<"a">>
    /\ received[pods[1]][1].message = <<"a">>

(* ---------------------------- LevelFilter ----------------------------- *)

\* the spellings of the nine level names
LevelSpellings ==
    {"TRACE", "DEBUG", "INFO", "WARN", "WARNING", "ERROR", "ERR", "FATAL",
     "CRITICAL",
     "trace", "debug", "info", "warn", "warning", "error", "err", "fatal",
     "critical",
     "Trace", "Info"}

\* the names LevelFilter::new is probed with
LevelNames == Strings(LevelArgs \cup {" ", "a"}, 2)

\* the lines the filter of the level name is probed with: the name as it is
\* and in upper case, the name of another level, a letter and punctuation
LevelLines(name) ==
    Strings({"a", " ", "[", "]", ":", name, ToUpper(name),
             IF ToUpper(name) = "WARNING" THEN "WARN" ELSE "WARNING"}, MaxLine)

\* the same lines behind a date
DatedLines(name) == {<<"2024-01-01", " ">> \o l : l \in LevelLines(name)}

\* the same lines behind the head of a tracing line
TraceLines(name) ==
    {<<"Trace", "[", "1", "]", ":", " ", "error", ":">> \o l :
        l \in LevelLines(name)}

\* the line contains the level name, in any letter case, as a word of its
\* own
Marked(name, line) ==
    \E i \in 1..Len(line) :
        /\ ToUpper(line[i]) = ToUpper(name)
        /\ i = 1 \/ line[i - 1] \in NonWord
        /\ i = Len(line) \/ line[i + 1] \in NonWord

\* the spellings that count as the level name
Synonyms(name) ==
    IF ToUpper(name) \in {"WARN", "WARNING"} THEN {"WARN", "WARNING"} ELSE {name}

\* the line is a tracing line that an ERROR filter leaves out
Excluded(name, line) ==
    /\ ToUpper(name) = "ERROR"
    /\ Occurs(<<"Trace", "[">>, line)
    /\ Occurs(<<"error", ":">>, line)

\* run() leaves the args state with a --level
LevelGiven == pc = "args" /\ pc' # "args" /\ level # None

\* C21: LevelFilter::new returns a filter for the nine level names in any
\* letter case and the invalid-level error for every other name; run()
\* goes on with one level filter in the first case and stops without any
\* filter in the second.
C21_ValidLevels ==
    [][LevelGiven =>
         /\ \A name \in LevelNames :
               LET made == LevelFilterNew(name)
               IN IF Len(name) = 1 /\ name[1] \in LevelSpellings
                  THEN made.ok /\ made.val.kind = "level"
                  ELSE ~ made.ok /\ made.val = <<"Invalid log level: ">> \o name
         /\ Len(level[1]) = 1 =>
               IF level[1][1] \in LevelSpellings
               THEN pc' = "setup" /\ error' = None /\ Len(filters') = 1
               ELSE pc' = "config_error" /\ error' # None /\ filters' = <<>>]_vars

\* C21 witness: --level warn gave a filter
C21_Witness ==
    /\ level = Some(<<"warn">>)
    /\ pc = "setup"
    /\ Len(filters) = 1
    /\ error = None

\* C22: the filter of --level ERROR rejects every line that contains both
\* "Trace[" and "error:", whatever else the line contains; the filter of any
\* other level decides such a line like any other line, by the level name
\* standing in it as a word.
C22_TraceExclusion ==
    [][(Created /\ level # None) =>
         \A line \in TraceLines(level[1][1]) :
         \A e \in {LogEntry(pods[1], line)} :
            IF ToUpper(level[1][1]) = "ERROR"
            THEN ~ Passes(e)'
            ELSE Passes(e)' =
                    (\E name \in Synonyms(level[1][1]) : Marked(name, line))]_vars

\* C22 witness: under --level ERROR a tracing line with an [ERROR] marker
\* was received and nothing was printed
C22_Witness ==
    /\ level = Some(<<"ERROR">>)
    /\ pc = "done"
    /\ Len(received[pods[1]]) = 1
    /\ received[pods[1]][1].ok
    /\ Occurs(<<"Trace", "[">>, received[pods[1]][1].raw_line)
    /\ Occurs(<<"error", ":">>, received[pods[1]][1].raw_line)
    /\ Occurs(<<"[", "ERROR", "]">>, received[pods[1]][1].raw_line)
    /\ printed = <<>>

\* C23 as the specification states it: the filter of level L accepts a line
\* that is not excluded exactly when L itself, in any letter case, stands in
\* the line as a word of its own.
C23_Original ==
    [][(Created /\ level # None) =>
         \A line \in LevelLines(level[1][1]) \cup DatedLines(level[1][1]) :
         \A e \in {LogEntry(pods[1], line)} :
            ~ Excluded(level[1][1], line) =>
                Passes(e)' = Marked(level[1][1], line)]_vars

\* C23: the filter of level L accepts a line that is not excluded exactly
\* when L, or for WARN and WARNING either of the two spellings, stands in the
\* line in any letter case as a word of its own; L inside a longer word and
\* the name of another level do not count.
C23_StandaloneWord ==
    [][(Created /\ level # None) =>
         \A line \in LevelLines(level[1][1]) \cup DatedLines(level[1][1]) :
         \A e \in {LogEntry(pods[1], line)} :
            ~ Excluded(level[1][1], line) =>
                Passes(e)' =
                    (\E name \in Synonyms(level[1][1]) : Marked(name, line))]_vars

\* C23 witness: under --level error the line "errora" was received and
\* nothing was printed
C23_Witness ==
    /\ level = Some(<<"error">>)
    /\ pc = "done"
    /\ Len(received[pods[1]]) = 1
    /\ received[pods[1]][1].ok
    /\ received[pods[1]][1].raw_line = <<"error", "a">>
    /\ printed = <<>>

\* C24: the filters of WARN and of WARNING accept the same lines, and both
\* accept either spelling in brackets, before a colon, before a colon behind
\* a date and as a word of its own.
C24_WarnSynonyms ==
    [][(Created /\ level # None) =>
         /\ \A line \in LevelLines("warn") \cup DatedLines("warn") :
            \A e \in {LogEntry(pods[1], line)} :
               /\ OfLevel(<<"WARN">>, line) = OfLevel(<<"WARNING">>, line)
               /\ ToUpper(level[1][1]) \in {"WARN", "WARNING"} =>
                     Passes(e)' = OfLevel(<<"WARN">>, line)
         /\ \A name \in {<<"WARN">>, <<"WARNING">>} :
            \A s \in {"WARN", "WARNING", "warn", "warning"} :
               /\ OfLevel(name, <<"[", s, "]">>)
               /\ OfLevel(name, <<s, ":">>)
               /\ OfLevel(name, <<"2024-01-01", " ", s, ":">>)
               /\ OfLevel(name, <<"a", " ", s, " ", "a">>)]_vars

\* C24 witness: under --level WARNING the line "[WARN] a" was printed
C24_Witness ==
    /\ level = Some(<<"WARNING">>)
    /\ pc = "done"
    /\ Len(printed) = 1
    /\ printed[1].raw_line = <<"[", "WARN", "]", " ", "a">>

\* the levels the --level option documents, and their order of severity
DocumentedLevels == <<"TRACE", "DEBUG", "INFO", "WARN", "ERROR", "FATAL">>

\* the severity of a documented level
Severity(name) ==
    CHOOSE k \in 1..Len(DocumentedLevels) : DocumentedLevels[k] = ToUpper(name)

\* C25: --level L is a minimum level: when the run is over, every received
\* line that is marked with a documented level at least as severe as L has
\* been printed.
C25_MinimumLevel ==
    (/\ pc = "done"
     /\ level # None
     /\ \E k \in 1..Len(DocumentedLevels) :
            DocumentedLevels[k] = ToUpper(level[1][1]))
        => \A p \in Pods : \A i \in 1..Len(received[p]) :
              LET e == received[p][i]
              IN (/\ e.ok
                  /\ ~ Excluded("ERROR", e.raw_line)
                  /\ \E k \in Severity(level[1][1])..Len(DocumentedLevels) :
                         Marked(DocumentedLevels[k], e.raw_line))
                    => \E j \in 1..Len(printed) : printed[j] = e

(* ----------------------------- the --and flag -------------------------- *)

\* C26: with --and the fragments of one option are combined with AND: every
\* printed line contains all the fragments of the pattern expression and is
\* of all the levels of the level expression.
C26_AndFlag ==
    args_and =>
        \A k \in 1..Len(printed) :
            /\ grep # None =>
                  \A f \in GrepFragments(grep[1]) : Occurs(f, printed[k].raw_line)
            /\ level # None =>
                  \A f \in LevelFragments(level[1]) :
                     \E name \in Synonyms(f[1]) : Marked(name, printed[k].raw_line)

(* ------------------------------ highlighting --------------------------- *)

\* the spans the merge is probed with: in any order, overlapping, touching,
\* contained in one another, empty
SpanLists ==
    Strings({span \in (0..MaxLine) \X (0..MaxLine) : span[1] <= span[2]}, MaxProbe)

\* the spans are sorted by start and each begins behind the end of the one
\* before it
Separated(spans) ==
    \A i \in 2..Len(spans) :
        /\ spans[i - 1][1] <= spans[i][1]
        /\ spans[i][1] > spans[i - 1][2]

\* C27: whatever the input spans are, the merged spans are sorted by start
\* and strictly separated, each beginning behind the end of the one before
\* it; (0,3), (2,5), (10,12) give (0,5), (10,12); and so are the merged spans
\* of every message that is printed.
C27_MergedSpansSeparated ==
    [][/\ Created =>
            /\ \A spans \in SpanLists : Separated(SortAndMerge(spans))
            /\ SortAndMerge(<<<<0, 3>>, <<2, 5>>, <<10, 12>>>>) = <<<<0, 5>>, <<10, 12>>>>
            /\ SortAndMerge(<<<<10, 12>>, <<2, 5>>, <<0, 3>>>>) = <<<<0, 5>>, <<10, 12>>>>
       /\ Len(printed') > Len(printed) =>
            \A k \in 1..Len(printed') : Separated(MergedMatches(printed'[k].message))]_vars

\* C27 witness: the patterns "b" and "a" matched the printed message "ab" at
\* (1,2) and (0,1), which were merged to (0,2)
C27_Witness ==
    /\ grep = Some(<<"b", ",", "a">>)
    /\ Len(printed) = 1
    /\ printed[1].message = <<"a", "b">>
    /\ CollectMatches(formatter.grep_filters, printed[1].message)
          = <<<<1, 2>>, <<0, 1>>>>
    /\ MergedMatches(printed[1].message) = <<<<0, 2>>>>

(* ------------------------------ discovery ------------------------------ *)

\* the pod is Running or in CrashLoopBackOff
Eligible(p) == status[p] = "Running" \/ status[p] = "CrashLoopBackOff"

\* C30: a pod that is neither Running nor in CrashLoopBackOff never gets a
\* kubectl or an ingestor and nothing of it is read or received, while every
\* eligible pod has got its ingestor once the renderer receives; when no pod
\* is eligible run() returns the error that names the deployment without
\* opening a channel or starting any ingestor, and it returns that error in
\* no other case.
C30_OnlyEligiblePods ==
    /\ \A p \in Pods :
          ~ Eligible(p) =>
             /\ task[p] = "idle"
             /\ child[p] = "none"
             /\ yielded[p] = <<>>
             /\ received[p] = <<>>
    /\ pc \in {"recv", "done"} =>
          \A p \in Pods : Eligible(p) => task[p] # "idle"
    /\ (\A p \in Pods : ~ Eligible(p)) =>
          /\ pc \in {"args", "no_pods"}
          /\ ~ rx_open
          /\ ~ agg_tx
    /\ pc = "no_pods" =>
          /\ \A p \in Pods : ~ Eligible(p)
          /\ error = Some(<<"No active pods found for deployment ", deployment>>)
    /\ pc # "no_pods" => error # Some(<<"No active pods found for deployment ", deployment>>)

\* C30 witness: a Pending pod was skipped while the one in CrashLoopBackOff was
\* read to its end
C30_Witness ==
    /\ status[pods[1]] = "Pending"
    /\ status[pods[2]] = "CrashLoopBackOff"
    /\ pc = "done"
    /\ task[pods[1]] = "idle"
    /\ Len(received[pods[2]]) = 1
    /\ received[pods[2]][1].ok


(* C31 ------------------------------------------------------------------ *)

\* the messages an entry is given in place of its own: none, and one that
\* holds every word the filters of SpecFilter look for
ProbeMessages == {<<>>, <<"a", "b", " ", "INFO", " ", "ERROR">>}

\* the entries that differ from an entry in pod_name and message only
SameRawLine(e) ==
    {[e EXCEPT !.pod_name = q, !.message = m] : q \in Pods, m \in ProbeMessages}

\* C31: evaluating the filters is a pure function of raw_line: for the filter
\* tree run() created, two entries with the same raw_line get the same
\* result whatever their pod_name and message are; and a step that evaluates
\* an entry leaves the filter tree as it was and hands on the entry it took
\* from the channel unchanged, so that evaluating it again gives the same
\* result
C31_PureFunctionOfRawLine ==
    [][/\ Created =>
            \A line \in ProbeLines :
                \A e \in {LogEntry(pods[1], line)} :
                    \A other \in SameRawLine(e) : Passes(other)' = Passes(e)'
       /\ pc = "recv" /\ queue # <<>> /\ queue' = Tail(queue) =>
            \A e \in {Head(queue)} :
                /\ filters' = filters
                /\ received'[e.pod_name] = Append(received[e.pod_name], e)
                /\ Passes(e)' = Passes(e)
                /\ printed' # printed => printed' = Append(printed, e)]_vars

\* an entry was evaluated and printed whose raw_line the filters accept and
\* whose message, had it been the text tested, they would reject
C31_Witness ==
    /\ pc = "done"
    /\ filters # <<>>
    /\ received[pods[1]] # <<>>
    /\ \E e \in {received[pods[1]][1]} :
          /\ e.ok
          /\ e.message # e.raw_line
          /\ Passes(e)
          /\ ~ Passes([e EXCEPT !.raw_line = e.message])
          /\ printed = <<e>>


(* C32 ------------------------------------------------------------------ *)

\* the pods whose ingestor task has been spawned
Spawned == {p \in Pods : task[p] # "idle"}

\* add_pod_stream(&mut self, ..) returns: one more pod is added
Added == added' = added + 1

\* C32 as stated: the aggregator takes sources before and after stream() has
\* handed out the Receiver, and every call spawned one ingestor
C32_Original ==
    /\ pc \in {"setup", "recv"} => agg_tx
    /\ Cardinality(Spawned) = added

\* C32 (amended): add_pod_stream can be called any number of times while the
\* aggregator exists, also while the ingestors spawned earlier are running
\* and the queue holds their values; each call spawns exactly one ingestor
\* task and sends nothing itself; stream() consumes the aggregator, and no
\* ingestor is spawned once the Receiver has been handed out
C32_OneTaskPerCall ==
    [][/\ Cardinality(Spawned') = added'
       /\ Added =>
            /\ pc = "setup" /\ agg_tx /\ agg_tx'
            /\ \E p \in Pods :
                  /\ task[p] = "idle" /\ task'[p] = "next"
                  /\ \A q \in Pods \ {p} : task'[q] = task[q]
            /\ queue' = queue /\ pending' = pending
       /\ pc' \in {"recv", "done"} => ~ agg_tx' /\ Spawned' = Spawned]_vars

\* the second pod has just been added, while the ingestor of the first one
\* has filled the queue with its lines
C32_Witness ==
    /\ pc = "setup"
    /\ added = NumPods
    /\ yielded[pods[2]] = <<>>
    /\ Len(SelectSeq2(queue, pods[1])) = MaxItems


(* C33 ------------------------------------------------------------------ *)

\* the offset lies inside one of the spans, which are half open: start is
\* the offset of the first byte of a match and end the offset behind its last
Covered(spans, offset) ==
    \E k \in 1..Len(spans) : spans[k][1] <= offset /\ offset < spans[k][2]

\* C33: merging preserves coverage: whatever the input spans are, an offset
\* lies inside a merged span exactly when it lies inside an input span, with
\* contained spans absorbed and touching spans joined; and so it is for the
\* matches of every message that is printed
C33_MergePreservesCoverage ==
    [][/\ Created =>
            \A spans \in SpanLists :
                \A merged \in {SortAndMerge(spans)} :
                    \A offset \in 0..MaxLine :
                        Covered(merged, offset) <=> Covered(spans, offset)
       /\ Len(printed') > Len(printed) =>
            \A k \in 1..Len(printed') :
                \A message \in {printed'[k].message} :
                    \A offset \in 0..Len(message) :
                        Covered(MergedMatches(message), offset)
                            <=> Covered(CollectMatches(formatter.grep_filters, message),
                                        offset)]_vars

\* the patterns "ab" and "b" matched the printed message "abb" at (0,2) and
\* at (1,2), (2,3): the contained match was absorbed and the touching one
\* joined, and (0,3) covers what they covered
C33_Witness ==
    /\ grep = Some(<<"a", "b", ",", "b">>)
    /\ Len(printed) = 1
    /\ printed[1].message = <<"a", "b", "b">>
    /\ CollectMatches(formatter.grep_filters, printed[1].message)
          = <<<<0, 2>>, <<1, 2>>, <<2, 3>>>>
    /\ MergedMatches(printed[1].message) = <<<<0, 3>>>>


(* C34 ------------------------------------------------------------------ *)

RECURSIVE Concat(_)
\* the texts of the segments, one behind the other: what the terminal shows
Concat(segments) ==
    IF segments = <<>> THEN <<>>
    ELSE Head(segments).text \o Concat(Tail(segments))

\* every span ends within the message
InBounds(spans, message) ==
    \A k \in 1..Len(spans) : spans[k][2] <= Len(message)

\* the message of the line kubectl prints in this run
ScriptMessage == LogEntry(pods[1], script[1]).message

\* C34: highlighted rendering never alters the text: for the message of the
\* run and any spans within it, merged as write_highlighted_message merges
\* them, the plain and the coloured segments written are, one behind the
\* other, the message followed by one line feed, so that every byte of the
\* message is written exactly once; and so is what is written for every
\* entry that is printed, with and without highlighting
C34_RenderingKeepsText ==
    [][/\ Created =>
            \A message \in {ScriptMessage} :
                \A spans \in {l \in SpanLists : InBounds(l, message)} :
                    Concat(WriteMatches(SortAndMerge(spans), message, 0))
                        = message \o <<NL>>
       /\ Len(printed') > Len(printed) =>
            \A message \in {printed'[Len(printed')].message} :
                Concat(WriteMessage(formatter, message)) = message \o <<NL>>]_vars

\* the message "aba" was printed with the patterns "ab" and "b" highlighted:
\* coloured "ab", plain "a" and the line feed
C34_Witness ==
    /\ formatter.highlight
    /\ grep = Some(<<"a", "b", ",", "b">>)
    /\ Len(printed) = 1
    /\ printed[1].message = <<"a", "b", "a">>
    /\ WriteMessage(formatter, printed[1].message)
          = <<Segment(TRUE, <<"a", "b">>), Segment(FALSE, <<"a">>),
              Segment(FALSE, <<NL>>)>>


(* C35 ------------------------------------------------------------------ *)

\* log_stream.recv() returns a value: the step takes the head of the queue
Received == pc = "recv" /\ queue # <<>> /\ queue' = Tail(queue)

\* the number of accepted entries among the received ones, of the pods
\* order[i..]
RECURSIVE AcceptedCount(_, _)
AcceptedCount(order, i) ==
    IF i > Len(order) THEN 0
    ELSE Len(SelectSeq(received[order[i]], Accepted)) + AcceptedCount(order, i + 1)

\* C35: in stream mode what is printed is the received Ok entries that pass
\* the filter, in arrival order: the step that receives an accepted entry
\* appends it to the output and no other step changes the output, so that
\* nothing is reordered, duplicated or skipped; the output holds as many
\* entries as were accepted and, of every pod, just its accepted entries in
\* the order they were received
C35_PrintedInArrivalOrder ==
    /\ [][Mode # "tail_no_follow" =>
             printed' = IF Received /\ Accepted(Head(queue))
                        THEN Append(printed, Head(queue))
                        ELSE printed]_vars
    /\ [](Mode # "tail_no_follow" =>
             /\ Len(printed) = AcceptedCount(pods, 1)
             /\ \A p \in Pods :
                   SelectSeq2(printed, p) = SelectSeq(received[p], Accepted))

\* in stream mode with a filter, three entries were received of which one
\* did not pass, and the two others, of different pods, are the output, the
\* second pod's in front
C35_Witness ==
    /\ Mode # "tail_no_follow"
    /\ filters # <<>>
    /\ Len(printed) = 2
    /\ Len(received[pods[1]]) = 2
    /\ Len(received[pods[2]]) = 1
    /\ printed[1] = received[pods[2]][1]
    /\ printed[2] = received[pods[1]][1]
    /\ received[pods[1]][2].ok /\ ~ Accepted(received[pods[1]][2])


(* C36 ------------------------------------------------------------------ *)

\* the ingestor of the first pod is suspended in a send on the full queue
Blocked == Len(queue) = Capacity /\ task[pods[1]] = "send" /\ rx_open

\* C36: adding sources never waits on queue space: a call of add_pod_stream
\* leaves the queue and the values being sent as they are, and while pods
\* are left to add the next call can be made although the queue is full
\* and an ingestor is suspended on it; and when the renderer starts to
\* receive with the queue full and an ingestor suspended, the run comes to
\* its end with every line the source produced received, more of them than
\* the queue holds when the source produced that many
C36_AddingNeverWaits ==
    /\ [][Added => queue' = queue /\ pending' = pending]_vars
    /\ []((pc = "setup" /\ Blocked) =>
             IF added < Len(ActivePods) THEN ENABLED AddPod ELSE ENABLED TakeStream)
    /\ (pc = "recv" /\ Blocked)
          ~> (pc = "done" /\ received[pods[1]] = Forwarded(pods[1])
                /\ Len(received[pods[1]]) > Capacity)

\* the pod was added and its ingestor is suspended on the full queue before
\* anything has been received
C36_Witness ==
    /\ pc = "setup"
    /\ added = Len(ActivePods)
    /\ Blocked
    /\ pods[1] \in stalled
    /\ received = [p \in Pods |-> <<>>]


(* C37 ------------------------------------------------------------------ *)

\* the error of get_pod_logs: cmd.spawn().context(format!("Failed to spawn
\* kubectl logs for pod {}", pod_info.name))
SpawnFailed(p) == <<"Failed to spawn kubectl logs for pod ", p>>

\* what run() has returned: nothing yet, Ok(()), the error of the filter
\* creation or of the discovery, or the error of the get_pod_logs call that
\* failed, which is the call for the pod behind those that were added
RunResult ==
    CASE pc = "done" -> Some(Ok(<<>>))
      [] pc \in {"config_error", "no_pods"} -> Some(Err(error[1]))
      [] pc = "failed" -> Some(Err(SpawnFailed(ActivePods[added + 1])))
      [] OTHER -> None

\* C37: when opening the stream of a source fails while the sources are
\* added, the run returns that error with nothing received, buffered or
\* printed, before and after, although the ingestors of the sources added
\* earlier were started and may have sent values: the Receiver is dropped
\* with what the channel holds
C37_OpenFailureReturnsFirst ==
    /\ [][(pc = "setup" /\ pc' = "failed") =>
             /\ RunResult' = Some(Err(SpawnFailed(ActivePods[added + 1])))
             /\ Spawned' = Spawned
             /\ received' = received]_vars
    /\ [](pc \in {"setup", "failed"} =>
             /\ \A p \in Pods : received[p] = <<>> /\ pod_buffers[p] = <<>>
             /\ printed = <<>>)
    /\ [](pc = "failed" =>
             /\ RunResult # None /\ ~ RunResult[1].ok
             /\ ~ rx_open /\ queue = <<>>)

\* opening the second source failed after the ingestor of the first had
\* sent lines: the run has returned the error that names the second pod,
\* and nothing was received
C37_Witness ==
    /\ pc = "failed"
    /\ added = 1
    /\ RunResult = Some(Err(SpawnFailed(pods[2])))
    /\ Len(forwarded[pods[1]]) >= 2
    /\ pending[pods[1]] = None
    /\ received[pods[1]] = <<>>
    /\ printed = <<>>


(* C38 ------------------------------------------------------------------ *)

\* the pod has a line in the output
HasPrinted(p) == \E i \in 1..Len(printed) : printed[i].pod_name = p

\* C38: a pod gets its prefix colour when its first entry is rendered and
\* keeps it: rendering the output from the formatter run() created gives
\* the formatter as it is, all lines of one pod have the same colour, a pod
\* has a colour exactly when a line of it was rendered, and no step changes
\* a colour that was assigned
C38_ColourPerPodFixed ==
    /\ [](pc \in {"recv", "done"} =>
             \A rendered \in {RenderAll(Formatter(grep, no_highlight), printed)} :
                 /\ rendered.formatter = formatter
                 /\ \A i, j \in 1..Len(printed) :
                       printed[i].pod_name = printed[j].pod_name
                           => rendered.colors[i] = rendered.colors[j]
                 /\ \A i \in 1..Len(printed) :
                       formatter.pod_colors[printed[i].pod_name]
                           = Some(rendered.colors[i])
                 /\ \A p \in Pods : formatter.pod_colors[p] # None <=> HasPrinted(p))
    /\ [][\A p \in Pods :
             (pc # "args" /\ formatter.pod_colors[p] # None)
                 => formatter.pod_colors'[p] = formatter.pod_colors[p]]_vars

\* lines of two pods were printed in turn: the first pod's in red, then the
\* second pod's in green, then the first pod's again in red
C38_Witness ==
    /\ Len(printed) = 3
    /\ printed[1].pod_name = printed[3].pod_name
    /\ printed[2].pod_name # printed[1].pod_name
    /\ RenderAll(Formatter(grep, no_highlight), printed).colors
          = <<"Red", "Green", "Red">>
    /\ formatter.current_index = 2


(* C39 ------------------------------------------------------------------ *)

\* no segment is written in the highlight colour
Plain(segments) == \A k \in 1..Len(segments) : ~ segments[k].highlighted

\* C39: with --no-highlight the formatter gets no grep filter and its
\* highlight flag is off, and every message is written as one plain segment;
\* without the flag the formatter gets the grep filters of the expression.
\* The filters are what the expressions alone make them, with and without
\* the flag, and so is the output: the step that receives an entry appends
\* it when the filters accept it and no other step changes the output
C39_NoHighlight ==
    [][/\ Created =>
            /\ filters' = CreateFilters(grep, level).val
            /\ formatter'.highlight = ~ no_highlight
            /\ no_highlight => formatter'.grep_filters = <<>>
            /\ ~ no_highlight =>
                  formatter'.grep_filters = GrepCombined(grep).val[1].filters
       /\ printed' = IF Received /\ Accepted(Head(queue))
                     THEN Append(printed, Head(queue))
                     ELSE printed
       /\ (Len(printed') > Len(printed) /\ no_highlight) =>
            \A message \in {printed'[Len(printed')].message} :
                /\ Plain(WriteMessage(formatter, message))
                /\ WriteMessage(formatter, message)
                      = <<Segment(FALSE, message \o <<NL>>)>>]_vars

\* with --no-highlight the message "ab", which the patterns "ab" and "b"
\* match, was printed as one plain segment
C39_Witness ==
    /\ no_highlight
    /\ grep = Some(<<"a", "b", ",", "b">>)
    /\ filters # <<>>
    /\ formatter.grep_filters = <<>>
    /\ Len(printed) = 1
    /\ printed[1].message = <<"a", "b">>
    /\ CollectMatches(filters[1].filters, printed[1].message) # <<>>
    /\ WriteMessage(formatter, printed[1].message)
          = <<Segment(FALSE, <<"a", "b", NL>>)>>

====
